---- MODULE Spec2Model ----
(***************************************************************************)
(* QuantX backend.  The module models the strategy decision engine         *)
(* (app/strategies/engine.py), the consensus engine                        *)
(* (app/consensus/engine.py), the backtest engine (app/backtest/engine.py),*)
(* the services of app/services (volatility.py, greeks.py, probability.py, *)
(* oi.py), the probability, strategy and chain routes of app/api/routes.py *)
(* and the signal stream of app/websocket/live_engine.py.                  *)
(*                                                                         *)
(* The engines and services are functions of their arguments.  Each is an  *)
(* operator that computes what the Python code computes, and each has an   *)
(* action that draws a call's arguments from a bounded set, applies the    *)
(* operator and records the call in (pc, args, ret, locals).  What outlives*)
(* a call is state: numpy's global generator (np_random), the strategy     *)
(* collection (strategies, saved) and the SignalManager with its sockets   *)
(* and broadcasts.  Every part of the backend has its own next-state       *)
(* relation and specification (SpecStrategy, SpecConsensus, ...).          *)
(*                                                                         *)
(* Numbers.  A Python float is modelled by the real number it stands for,  *)
(* extended with +inf, -inf and NaN where Python and numpy produce them,   *)
(* and with the exceptions Python raises on overflow and outside a         *)
(* function's domain.  Reals are exact fractions num/den of integers of any*)
(* size (limb sequences), because the sums and powers of the code outgrow  *)
(* TLC's 32-bit integers.  Rounding to IEEE doubles is modelled where a    *)
(* result depends on it (oi_spike_detector, the range of a float); the     *)
(* elementary functions are tabulated.                                     *)
(***************************************************************************)
EXTENDS Integers, Sequences, FiniteSets, TLC

VARIABLES pc, args, ret, locals, np_random,
          strategies, saved,
          active_connections, sockets, broadcasts

\* what outlives a call: the strategy collection of the database (and what
\* its clients were told is saved in it) and the SignalManager with the
\* WebSockets and the broadcasts in progress
shared == <<strategies, saved, active_connections, sockets, broadcasts>>

vars == <<pc, args, ret, locals, np_random, shared>>

\* F at the value of e: the value is computed once, however often F reads it
With(e, F(_)) == F(e)

(***************************************************************************)
(* Natural numbers of any size: little-endian sequences of limbs in        *)
(* 0..Base-1 without leading zero limbs; <<>> is 0.                        *)
(***************************************************************************)
Base == 100 * 100

RECURSIVE NatOf(_)
NatOf(k) == IF k = 0 THEN <<>> ELSE <<k % Base>> \o NatOf(k \div Base)

RECURSIVE NatStrip(_)
NatStrip(a) ==
  IF a = <<>> THEN <<>>
  ELSE IF a[Len(a)] = 0 THEN NatStrip(SubSeq(a, 1, Len(a) - 1)) ELSE a

\* limb i of a, 0 beyond its length
Limb(a, i) == IF i <= Len(a) THEN a[i] ELSE 0

\* limbs i..j of a + b + c and the carry out of limb j, by halves
RECURSIVE NatAddC(_, _, _, _, _)
NatAddC(a, b, c, i, j) ==
  IF i = j
  THEN LET s == Limb(a, i) + Limb(b, i) + c IN <<<<s % Base>>, s \div Base>>
  ELSE LET m == (i + j) \div 2
           lo == NatAddC(a, b, c, i, m)
           hi == NatAddC(a, b, lo[2], m + 1, j)
       IN  <<lo[1] \o hi[1], hi[2]>>

NatAdd(a, b) ==
  IF a = <<>> THEN b
  ELSE IF b = <<>> THEN a
  ELSE LET r == NatAddC(a, b, 0, 1, IF Len(a) > Len(b) THEN Len(a) ELSE Len(b))
       IN  IF r[2] = 0 THEN r[1] ELSE r[1] \o <<r[2]>>

\* limbs i..j of a - b - w for a >= b and the borrow out of limb j, by halves
RECURSIVE NatSubB(_, _, _, _, _)
NatSubB(a, b, w, i, j) ==
  IF i = j
  THEN LET s == a[i] - Limb(b, i) - w IN <<<<s % Base>>, IF s < 0 THEN 1 ELSE 0>>
  ELSE LET m == (i + j) \div 2
           lo == NatSubB(a, b, w, i, m)
           hi == NatSubB(a, b, lo[2], m + 1, j)
       IN  <<lo[1] \o hi[1], hi[2]>>

NatSub(a, b) == IF b = <<>> THEN a ELSE NatStrip(NatSubB(a, b, 0, 1, Len(a))[1])

\* -1, 0, 1 as a < b, a = b, a > b on the limbs i..j of two numbers of one
\* length, the higher half first
RECURSIVE NatCmpFrom(_, _, _, _)
NatCmpFrom(a, b, i, j) ==
  IF i = j THEN (IF a[i] < b[i] THEN -1 ELSE IF a[i] > b[i] THEN 1 ELSE 0)
  ELSE LET m == (i + j) \div 2
           hi == NatCmpFrom(a, b, m + 1, j)
       IN  IF hi # 0 THEN hi ELSE NatCmpFrom(a, b, i, m)

NatCmp(a, b) ==
  IF Len(a) < Len(b) THEN -1
  ELSE IF Len(a) > Len(b) THEN 1
  ELSE IF a = <<>> THEN 0
  ELSE NatCmpFrom(a, b, 1, Len(a))

\* limbs i..j of a * k + c for a limb k, and the carry out of limb j, by halves
RECURSIVE NatMulLimb(_, _, _, _, _)
NatMulLimb(a, k, c, i, j) ==
  IF i = j
  THEN LET s == a[i] * k + c IN <<<<s % Base>>, s \div Base>>
  ELSE LET m == (i + j) \div 2
           lo == NatMulLimb(a, k, c, i, m)
           hi == NatMulLimb(a, k, lo[2], m + 1, j)
       IN  <<lo[1] \o hi[1], hi[2]>>

\* a * b, by halves of a
RECURSIVE NatMul(_, _)
NatMul(a, b) ==
  IF a = <<>> \/ b = <<>> THEN <<>>
  ELSE IF Len(a) = 1
  THEN (IF a[1] = 1 THEN b
        ELSE LET r == NatMulLimb(b, a[1], 0, 1, Len(b))
             IN  IF r[2] = 0 THEN r[1] ELSE r[1] \o <<r[2]>>)
  ELSE IF Len(b) = 1 THEN NatMul(b, a)
  ELSE LET h == Len(a) \div 2
           lo == NatMul(NatStrip(SubSeq(a, 1, h)), b)
           hi == NatMul(SubSeq(a, h + 1, Len(a)), b)
       IN  NatAdd(lo, [x \in 1..h |-> 0] \o hi)

\* m * Base^k
NatShift(m, k) == [i \in 1..k |-> 0] \o m

\* the products xs[i] * ys[i]
Products(xs, ys) == [i \in DOMAIN xs |-> NatMul(xs[i], ys[i])]

(***************************************************************************)
(* Integers of any size: a sign sg in {-1, 0, 1} and a magnitude.          *)
(***************************************************************************)
IntOf(k) ==
  [sg |-> IF k = 0 THEN 0 ELSE IF k > 0 THEN 1 ELSE -1,
   mag |-> NatOf(IF k < 0 THEN -k ELSE k)]

IntNeg(a) == [sg |-> -a.sg, mag |-> a.mag]

\* the integer of sign sg (for a non-zero magnitude) and magnitude m
IntMake(sg, m) == IF m = <<>> THEN [sg |-> 0, mag |-> m] ELSE [sg |-> sg, mag |-> m]

IntAdd(a, b) ==
  IF a.sg = 0 THEN b
  ELSE IF b.sg = 0 THEN a
  ELSE IF a.sg = b.sg THEN [sg |-> a.sg, mag |-> NatAdd(a.mag, b.mag)]
  ELSE With(NatCmp(a.mag, b.mag), LAMBDA c :
         IF c = 0 THEN [sg |-> 0, mag |-> <<>>]
         ELSE [sg |-> IF c > 0 THEN a.sg ELSE b.sg,
               mag |-> NatSub(IF c > 0 THEN a.mag ELSE b.mag,
                              IF c > 0 THEN b.mag ELSE a.mag)])

IntMulNat(a, m) == IntMake(a.sg, NatMul(a.mag, m))

\* -1, 0, 1 as a < b, a = b, a > b
IntCmp(a, b) ==
  IF a.sg # b.sg THEN (IF a.sg < b.sg THEN -1 ELSE 1)
  ELSE IF a.sg = 0 THEN 0
  ELSE a.sg * NatCmp(a.mag, b.mag)

(***************************************************************************)
(* Floats as extended reals: num/den with den > 0 for a finite value;      *)
(* den = 0 (the empty magnitude) for the non-finite ones, told apart by    *)
(* the sign of num: +inf (1), -inf (-1), NaN (0).                          *)
(***************************************************************************)
FSign(n) == [sg |-> n.sg, mag |-> IF n.sg = 0 THEN <<>> ELSE <<1>>]

FMake(n, d) == IF d = <<>> THEN [num |-> FSign(n), den |-> d] ELSE [num |-> n, den |-> d]

\* the float for the fraction n/d of two TLA+ integers, d > 0
Float(n, d) == [num |-> IntOf(n), den |-> NatOf(d)]

PosInf == [num |-> [sg |-> 1, mag |-> <<1>>], den |-> <<>>]
NegInf == [num |-> [sg |-> -1, mag |-> <<1>>], den |-> <<>>]
NaN == [num |-> [sg |-> 0, mag |-> <<>>], den |-> <<>>]

IsFinite(a) == a.den # <<>>
IsNaN(a) == a.den = <<>> /\ a.num.sg = 0

FNeg(a) == [num |-> IntNeg(a.num), den |-> a.den]

FAdd(a, b) ==
  IF ~IsFinite(a) /\ ~IsFinite(b)
  THEN (IF a.num.sg = b.num.sg THEN a ELSE NaN)
  ELSE With(IF a.den = b.den THEN <<a.num.mag, b.num.mag, a.den>>
            ELSE Products(<<a.num.mag, b.num.mag, a.den>>, <<b.den, a.den, b.den>>),
            LAMBDA p :
         FMake(IntAdd(IntMake(a.num.sg, p[1]), IntMake(b.num.sg, p[2])), p[3]))

FSub(a, b) == FAdd(a, FNeg(b))

FMul(a, b) ==
  With(Products(<<a.num.mag, a.den>>, <<b.num.mag, b.den>>), LAMBDA p :
    FMake(IntMake(a.num.sg * b.num.sg, p[1]), p[2]))

\* IEEE division as numpy performs it: x/0 is +inf, -inf or NaN by the sign of x
FDiv(a, b) ==
  With(IF a.den = b.den /\ IsFinite(a) THEN <<a.num.mag, b.num.mag>>
       ELSE Products(<<a.num.mag, a.den>>, <<b.den, b.num.mag>>), LAMBDA p :
    FMake(IntMake(a.num.sg * (IF b.num.sg < 0 THEN -1 ELSE 1), p[1]), p[2]))

\* -1, 0, 1 as a < b, a = b, a > b; neither operand is NaN
FCmp(a, b) ==
  IF ~IsFinite(a) \/ ~IsFinite(b)
  THEN LET ra == IF IsFinite(a) THEN 0 ELSE a.num.sg
           rb == IF IsFinite(b) THEN 0 ELSE b.num.sg
       IN  IF ra < rb THEN -1 ELSE IF ra > rb THEN 1 ELSE 0
  ELSE With(IF a.den = b.den THEN <<a.num.mag, b.num.mag>>
            ELSE Products(<<a.num.mag, b.num.mag>>, <<b.den, a.den>>), LAMBDA p :
         IntCmp(IntMake(a.num.sg, p[1]), IntMake(b.num.sg, p[2])))

\* the comparisons of IEEE floats: every comparison with NaN is false
FLt(a, b) == ~IsNaN(a) /\ ~IsNaN(b) /\ FCmp(a, b) < 0
FLe(a, b) == ~IsNaN(a) /\ ~IsNaN(b) /\ FCmp(a, b) <= 0
FGt(a, b) == FLt(b, a)
FGe(a, b) == FLe(b, a)
FEq(a, b) == ~IsNaN(a) /\ ~IsNaN(b) /\ FCmp(a, b) = 0

Zero == [num |-> [sg |-> 0, mag |-> <<>>], den |-> <<1>>]

\* Python's None
None == [none |-> TRUE]

\* dict.get(k, default) on a dict modelled as a function on its keys
Get(d, k, default) == IF k \in DOMAIN d THEN d[k] ELSE default

\* the dict with no key
EmptyDict == [k \in {} |-> None]

\* the sequences over S of length n, and of length at most n
SeqsOfLen(S, n) == [1..n -> S]
SeqsUpTo(S, n) == UNION {SeqsOfLen(S, k) : k \in 0..n}

(***************************************************************************)
(* app/strategies/engine.py                                                *)
(*                                                                         *)
(* Indicator values and thresholds are written in hundredths: 125 is the   *)
(* float 1.25, and the default 0.0 of an absent indicator is 0.            *)
(***************************************************************************)

\* str.upper() on the side strings a request may carry
Upper(s) ==
  CASE s = "buy" -> "BUY"
    [] s = "sell" -> "SELL"
    [] s = "BUY" -> "BUY"
    [] s = "SELL" -> "SELL"

_evaluate_condition_unknown_true(cond, context) ==
  LET value == Get(context, cond.indicator, 0)
      op == cond.operator
      thr == cond.threshold
  IN  IF op = ">" THEN value > thr
      ELSE IF op = "<" THEN value < thr
      ELSE IF op = ">=" THEN value >= thr
      ELSE IF op = "<=" THEN value <= thr
      ELSE IF op = "==" THEN value = thr
      ELSE IF op = "!=" THEN value # thr
      ELSE TRUE

_evaluate_condition_missing_false(cond, context) ==
  LET value == Get(context, cond.indicator, 0)
      op == cond.operator
      thr == cond.threshold
  IN  IF cond.indicator \notin DOMAIN context THEN FALSE
      ELSE IF op = ">" THEN value > thr
      ELSE IF op = "<" THEN value < thr
      ELSE IF op = ">=" THEN value >= thr
      ELSE IF op = "<=" THEN value <= thr
      ELSE IF op = "==" THEN value = thr
      ELSE IF op = "!=" THEN value # thr
      ELSE FALSE

_evaluate_condition(cond, context) ==
  LET value == Get(context, cond.indicator, 0)
      op == cond.operator
      thr == cond.threshold
  IN  IF op = ">" THEN value > thr
      ELSE IF op = "<" THEN value < thr
      ELSE IF op = ">=" THEN value >= thr
      ELSE IF op = "<=" THEN value <= thr
      ELSE IF op = "==" THEN value = thr
      ELSE IF op = "!=" THEN value # thr
      ELSE FALSE

\* now is the reading of datetime.utcnow() the call makes
RECURSIVE _apply_filters(_, _, _)
_apply_filters(filters, context, now) ==
  IF filters = <<>> THEN TRUE
  ELSE LET f == Head(filters)
       IN  IF f.name = "min_volume"
              /\ Get(context, "volume", 0) < Get(f.params, "value", 0)
           THEN FALSE
           ELSE IF f.name = "session"
                   /\ "value" \in DOMAIN f.params    \* .get("value") is None otherwise
                   /\ f.params["value"] = "opening"
                   /\ now.hour > 10
           THEN FALSE
           ELSE _apply_filters(Tail(filters), context, now)

_build_trades_from_actions_reversed(actions, price, now) ==
  [i \in 1..Len(actions) |->
     LET a == actions[Len(actions) + 1 - i]
     IN  [time |-> now, symbol |-> a.instrument, side |-> Upper(a.side),
          quantity |-> a.quantity, price |-> price, pnl |-> 0]]

_build_trades_from_actions(actions, price, now) ==
  [i \in 1..Len(actions) |->
     LET a == actions[i]
     IN  [time |-> now, symbol |-> a.instrument, side |-> Upper(a.side),
          quantity |-> a.quantity, price |-> price, pnl |-> 0]]

run_live_strategy(req, context, now) ==
  LET strat == req.strategy
      all_conditions ==
        \A i \in 1..Len(strat.conditions) :
           _evaluate_condition(strat.conditions[i], context)
      filters_ok == _apply_filters(strat.filters, context, now)
      should_trade == all_conditions /\ filters_ok
      price == Get(context, "price", 0)
      trades == IF should_trade
                THEN _build_trades_from_actions(strat.actions, price, now)
                ELSE <<>>
  IN  [executed |-> should_trade, trades |-> trades, context |-> context]

\* ---- the arguments the calls are drawn from ----

\* a strategy holds at most MaxRules conditions, filters and actions in all
MaxRules == 3

Operators == {">", "<", ">=", "<=", "==", "!=", "<>"}

ConditionSet ==
  {[indicator |-> "pcr_oi", operator |-> o, threshold |-> 70] : o \in Operators}
  \cup {[indicator |-> "missing", operator |-> "<", threshold |-> 100],
        [indicator |-> "missing", operator |-> ">", threshold |-> 0]}

FilterSet ==
  {[name |-> "min_volume", params |-> [value |-> 1000]],
   [name |-> "min_volume", params |-> EmptyDict],
   [name |-> "session", params |-> [value |-> "opening"]],
   [name |-> "session", params |-> [value |-> "closing"]],
   [name |-> "liquidity", params |-> EmptyDict]}

ActionSet ==
  {[side |-> "buy", quantity |-> 1, instrument |-> "NIFTY_CE"],
   [side |-> "SELL", quantity |-> 2, instrument |-> "NIFTY_PE"]}

\* the context dicts: pcr_oi always, volume and price present or absent
Contexts ==
  {("pcr_oi" :> p) @@ v @@ c :
     p \in {70, 125},
     v \in {EmptyDict, [volume |-> 100000]},
     c \in {EmptyDict, [price |-> 100]}}

\* readings of the UTC clock: the hour of the day
Clock == {[hour |-> 10], [hour |-> 11]}

StrategyDefinition(conditions, filters, actions) ==
  [name |-> "pcr", mode |-> "LIVE", conditions |-> conditions,
   filters |-> filters, actions |-> actions, exits |-> <<>>,
   multi_leg |-> FALSE]

(***************************************************************************)
(* app/consensus/engine.py                                                 *)
(***************************************************************************)

\* Python's min(a, b) and max(a, b): a unless b is strictly smaller (larger)
PyMin(a, b) == IF FLt(b, a) THEN b ELSE a
PyMax(a, b) == IF FGt(b, a) THEN b ELSE a

FAbs(a) == IF a.num.sg < 0 THEN FNeg(a) ELSE a

RECURSIVE FSum(_)
FSum(xs) == IF xs = <<>> THEN Zero ELSE FAdd(FSum(SubSeq(xs, 1, Len(xs) - 1)), xs[Len(xs)])

Hundred == Float(100, 1)
Fifty == Float(50, 1)

prob_score(probability) ==
  FMul(Hundred, PyMax(probability.d2_probability, probability.monte_carlo_itm_probability))

\* the guard of the HV/IV component
hv_iv_guard(volatility) ==
  volatility.iv # None /\ volatility.hv # None /\ FGt(volatility.hv, Zero)

\* float division in Python raises ZeroDivisionError on a zero divisor
vol_raises(volatility) == hv_iv_guard(volatility) /\ FEq(volatility.iv, Zero)

vol_components(volatility) ==
  (IF hv_iv_guard(volatility)
   THEN <<FMul(PyMin(Float(2, 1), FDiv(volatility.hv, volatility.iv)), Fifty)>>
   ELSE <<>>)
  \o (IF volatility.iv_rank # None
      THEN <<FSub(Hundred, FAbs(FSub(volatility.iv_rank, Fifty)))>>
      ELSE <<>>)
  \o (IF volatility.iv_percentile # None
      THEN <<FSub(Hundred, FAbs(FSub(volatility.iv_percentile, Fifty)))>>
      ELSE <<>>)

vol_score(volatility) ==
  LET c == vol_components(volatility)
  IN  IF c # <<>> THEN FDiv(FSum(c), Float(Len(c), 1)) ELSE Fifty

oi_score(oi) ==
  FSub(Hundred,
       PyMin(Hundred, FAdd(FMul(FAbs(oi.spike_score), Float(10, 1)),
                           FMul(oi.anomaly_score, Float(10, 1)))))

mr_component(market) == FAdd(Fifty, FMul(market.mean_reversion_score, Float(10, 1)))

trend_component(market) ==
  IF market.trend_signal = "UP" THEN Float(70, 1)
  ELSE IF market.trend_signal = "DOWN" THEN Float(30, 1)
  ELSE Fifty

regime_map ==
  [BULL |-> Float(70, 1), BEAR |-> Float(30, 1), RANGE |-> Fifty, VOLATILE |-> Float(40, 1)]

regime_component(market) == Get(regime_map, market.regime, Fifty)

market_score(market) ==
  FDiv(FAdd(FAdd(mr_component(market), trend_component(market)), regime_component(market)),
       Float(3, 1))

weights ==
  [probability |-> Float(35, 100), volatility |-> Float(25, 100),
   oi |-> Float(15, 100), market |-> Float(25, 100)]

raw_score_oi_market_swapped(p, v, o, m) ==
  FAdd(FAdd(FAdd(FMul(p, weights.probability), FMul(v, weights.volatility)),
            FMul(o, weights.market)),
       FMul(m, weights.oi))

raw_score(p, v, o, m) ==
  FAdd(FAdd(FAdd(FMul(p, weights.probability), FMul(v, weights.volatility)),
            FMul(o, weights.oi)),
       FMul(m, weights.market))

confidence_score_unclamped(raw) == raw

confidence_score(raw) == PyMax(Zero, PyMin(Hundred, raw))

\* the ConsensusResponse, or the exception the call ends with
compute_consensus(probability, volatility, oi, market) ==
  IF vol_raises(volatility) THEN [raised |-> "ZeroDivisionError"]
  ELSE LET p == prob_score(probability)
           v == vol_score(volatility)
           o == oi_score(oi)
           m == market_score(market)
       IN  [confidence_score |-> confidence_score(raw_score(p, v, o, m)),
            details |-> [probability_score |-> p, volatility_score |-> v,
                         oi_score |-> o, market_score |-> m]]

\* ---- the arguments the calls are drawn from ----

\* values in hundredths
Hundredths(S) == {Float(k, 100) : k \in S}

ProbabilityResults ==
  {[d2_probability |-> d, lognormal_itm_probability |-> Float(46, 100),
    binomial_itm_probability |-> Float(46, 100),
    monte_carlo_itm_probability |-> mc, expected_move |-> Float(69, 10)] :
     d \in Hundredths({-50, 46, 150}), mc \in Hundredths({-20, 90})}

IVResponses ==
  {[iv |-> iv, iv_rank |-> rank, iv_percentile |-> pct, hv |-> hv] :
     iv \in Hundredths({0, 20}),
     hv \in {None} \cup Hundredths({0, 10, 50}),
     rank \in {None, Float(30, 1)},
     pct \in {None, Float(250, 1)}}

OIResponses ==
  {[spike_score |-> sp, volume_oi_ratio |-> Float(1, 2), trend |-> "flat",
    anomaly_score |-> an, pcr_oi |-> None, pcr_volume |-> None] :
     sp \in {Float(-3, 1), Float(50, 1)}, an \in {Zero, Float(-30, 1)}}

TrendDirection == {"UP", "DOWN", "SIDEWAYS"}
MarketRegime == {"BULL", "BEAR", "RANGE", "VOLATILE"}

MarketResponses ==
  {[atr_trend |-> "SIDEWAYS", vwap_signal |-> "above", bollinger_squeeze |-> Zero,
    trend_signal |-> t, mean_reversion_score |-> mr, regime |-> r] :
     t \in TrendDirection, r \in MarketRegime,
     mr \in {Float(-40, 1), Float(60, 1)}}

(***************************************************************************)
(* app/backtest/engine.py                                                  *)
(***************************************************************************)

_apply_fee_and_slippage_side_ignored(price, fee_perc, slippage_bps, side) ==
  LET fee == FMul(price, fee_perc)
      slip == FDiv(FMul(price, slippage_bps), Float(10000, 1))
  IN  FAdd(FAdd(price, fee), slip)

_apply_fee_and_slippage(price, fee_perc, slippage_bps, side) ==
  LET fee == FMul(price, fee_perc)
      slip == FDiv(FMul(price, slippage_bps), Float(10000, 1))
  IN  IF Upper(side) = "BUY"
      THEN FAdd(FAdd(price, fee), slip)
      ELSE FSub(FSub(price, fee), slip)

\* the loop of equity_curve_from_trades: equity and curve after each trade
RECURSIVE equity_loop(_, _, _)
equity_loop(equity, curve, trades) ==
  IF trades = <<>> THEN curve
  ELSE LET t == Head(trades)
           direction == IF Upper(t.side) = "BUY" THEN 1 ELSE -1
           next == FAdd(equity,
                        FMul(FMul(Float(direction * t.quantity, 1), t.price),
                             Float(1, 1000)))
       IN  equity_loop(next, Append(curve, next), Tail(trades))

equity_curve_from_trades_all_long(initial_capital, trades) ==
  equity_loop(initial_capital, <<initial_capital>>,
              [i \in 1..Len(trades) |-> [trades[i] EXCEPT !.side = "BUY"]])

equity_curve_from_trades(initial_capital, trades) ==
  equity_loop(initial_capital, <<initial_capital>>, trades)

\* np.diff(equity_curve) / equity_curve[:-1]
returns_of(equity_curve) ==
  [i \in 1..(Len(equity_curve) - 1) |->
     FDiv(FSub(equity_curve[i + 1], equity_curve[i]), equity_curve[i])]

IsGain(r) == FGt(r, Zero)
IsLoss(r) == FLt(r, Zero)

\* the cap of the profit factor
SentinelCap == 999

profit_factor_capped_without_gain(gross_profit, gross_loss) ==
  IF FGt(gross_loss, Zero) THEN FDiv(gross_profit, gross_loss)
  ELSE IF FGe(gross_profit, Zero) THEN Float(SentinelCap, 1)
  ELSE Zero

profit_factor(gross_profit, gross_loss) ==
  IF FGt(gross_loss, Zero) THEN FDiv(gross_profit, gross_loss)
  ELSE IF FGt(gross_profit, Zero) THEN Float(SentinelCap, 1)
  ELSE Zero

\* np.maximum.accumulate over finite values
RECURSIVE running_peak(_, _)
running_peak(equity_curve, i) ==
  IF i = 1 THEN equity_curve[1]
  ELSE LET before == running_peak(equity_curve, i - 1)
       IN  IF FGt(equity_curve[i], before) THEN equity_curve[i] ELSE before

\* ndarray.min(): NaN if any element is NaN
RECURSIVE NpMin(_)
NpMin(xs) ==
  IF Len(xs) = 1 THEN xs[1]
  ELSE LET rest == NpMin(Tail(xs))
       IN  IF IsNaN(xs[1]) \/ IsNaN(rest) THEN NaN
           ELSE IF FLt(rest, xs[1]) THEN rest ELSE xs[1]

drawdowns_of(equity_curve) ==
  [i \in 1..Len(equity_curve) |->
     LET peak == running_peak(equity_curve, i)
     IN  FDiv(FSub(equity_curve[i], peak), peak)]

\* BacktestStats without sharpe: sharpe takes a square root (np.std), which
\* has no exact value here, and nothing below reads it
compute_stats(equity_curve) ==
  IF Len(equity_curve) < 2
  THEN [total_trades |-> 0, win_rate |-> Zero, profit_factor |-> Zero,
        max_drawdown |-> Zero]
  ELSE LET returns == returns_of(equity_curve)
           total_trades == Len(returns)
           wins == Cardinality({i \in 1..Len(returns) : IsGain(returns[i])})
           losses == Cardinality({i \in 1..Len(returns) : IsLoss(returns[i])})
           win_rate == IF total_trades # 0 THEN Float(wins, total_trades) ELSE Zero
           gross_profit == FSum(SelectSeq(returns, IsGain))
           gross_loss == IF losses # 0 THEN FNeg(FSum(SelectSeq(returns, IsLoss)))
                         ELSE Zero
           drawdowns == drawdowns_of(equity_curve)
           max_dd == IF Len(drawdowns) # 0 THEN NpMin(drawdowns) ELSE Zero
       IN  [total_trades |-> total_trades, win_rate |-> win_rate,
            profit_factor |-> profit_factor(gross_profit, gross_loss),
            max_drawdown |-> max_dd]

\* every how many price samples run_backtest trades
Cadence == 10

\* trades that are stamped with the end of the backtest
sample_trades_at_end_date(req, price) ==
  [j \in 1..Len(req.strategy.actions) |->
     [time |-> req.end_date, symbol |-> req.strategy.actions[j].instrument,
      side |-> Upper(req.strategy.actions[j].side),
      quantity |-> req.strategy.actions[j].quantity,
      price |-> _apply_fee_and_slippage(price, Float(5, 10000), Float(1, 1),
                                        Upper(req.strategy.actions[j].side)),
      pnl |-> Zero]]

\* the trades of one sample: one per action, in action order
sample_trades(req, price) ==
  [j \in 1..Len(req.strategy.actions) |->
     LET a == req.strategy.actions[j]
         side == Upper(a.side)
         exec_price == _apply_fee_and_slippage(price, Float(5, 10000), Float(1, 1), side)
     IN  [time |-> req.start_date, symbol |-> a.instrument, side |-> side,
          quantity |-> a.quantity, price |-> exec_price, pnl |-> Zero]]

\* the loop of run_backtest from index i (0-based) on
RECURSIVE backtest_trades_from(_, _, _)
backtest_trades_from(req, prices, i) ==
  IF i >= Len(prices) THEN <<>>
  ELSE (IF i % Cadence = 0 THEN sample_trades(req, prices[i + 1]) ELSE <<>>)
       \o backtest_trades_from(req, prices, i + 1)

backtest_trades_first_sample_only(req, prices) ==
  IF prices = <<>> THEN <<>> ELSE sample_trades(req, prices[1])

backtest_trades(req, prices) == backtest_trades_from(req, prices, 0)

\* "bt_" + name.replace(" ", "_")
BacktestId(name) ==
  CASE name = "pcr" -> "bt_pcr"
    [] name = "iron condor" -> "bt_iron_condor"

run_backtest(req, prices) ==
  LET trades == backtest_trades(req, prices)
      equity_curve == equity_curve_from_trades(req.initial_capital, trades)
      stats == compute_stats(equity_curve)
  IN  [id |-> BacktestId(req.strategy.name), symbol |-> req.symbol,
       strategy_name |-> req.strategy.name, equity_curve |-> equity_curve,
       trades |-> trades, stats |-> stats]

\* ---- the arguments the calls are drawn from ----

\* the longest price series, the most actions of a backtested strategy and
\* the longest equity curve handed to compute_stats directly
MaxPrices == 21
MaxActions == 2
MaxCurve == 4

\* price series p0, p0 + h/2, p0 + 2h/2, ...: the route's is 100 + 0.5 i
PriceSeries(p0, h, n) == [i \in 1..n |-> Float(2 * p0 + h * (i - 1), 2)]

PriceLists ==
  {PriceSeries(p0, h, n) : p0 \in {0, 100}, h \in {-20, 0, 1}, n \in 0..MaxPrices}

InitialCapitals == {Float(0, 1), Float(100000, 1), Float(-50, 1)}

\* the fields of a request that run_backtest does not read
UnreadFields ==
  {[mode |-> "BACKTEST", conditions |-> <<>>, filters |-> <<>>, exits |-> <<>>,
    end_date |-> "2024-06-30"],
   [mode |-> "BACKTEST",
    conditions |-> <<[indicator |-> "missing", operator |-> ">", threshold |-> 0]>>,
    filters |-> <<>>, exits |-> <<[type |-> "stop_loss", value |-> 15]>>,
    end_date |-> "2024-06-30"],
   [mode |-> "LIVE",
    conditions |-> <<[indicator |-> "pcr_oi", operator |-> "<", threshold |-> 70]>>,
    filters |-> <<[name |-> "liquidity", params |-> EmptyDict]>>,
    exits |-> <<[type |-> "take_profit", value |-> 30]>>,
    end_date |-> "2023-12-31"]}

BacktestRequests ==
  {[strategy |-> [name |-> "iron condor", mode |-> u.mode,
                  conditions |-> u.conditions, filters |-> u.filters, actions |-> actions,
                  exits |-> u.exits, multi_leg |-> FALSE],
    symbol |-> "NIFTY", start_date |-> "2024-01-01", end_date |-> u.end_date,
    initial_capital |-> c] :
     actions \in SeqsUpTo(ActionSet, MaxActions), c \in InitialCapitals, u \in UnreadFields}

EquityCurves == SeqsUpTo({Float(k, 1) : k \in -1..2}, MaxCurve)

(***************************************************************************)
(* The library functions of math, numpy and scipy.stats.norm that the      *)
(* services call (log, exp, sqrt, norm.cdf, norm.pdf).  Each is a          *)
(* continuous, piecewise linear function of its real argument: the         *)
(* function's values, to nine decimals, at the points of a grid, and the   *)
(* chord in between.  The result is within 2e-4 (relative, for exp and     *)
(* sqrt) of the function; norm.cdf and norm.pdf are 1 - cdf(-x) and even,  *)
(* constant beyond |x| = 8, and every function is monotone where the       *)
(* library's is.                                                           *)
(***************************************************************************)
Scale == 10^9

One == [num |-> [sg |-> 1, mag |-> <<1>>], den |-> <<1>>]
Two == [num |-> [sg |-> 1, mag |-> <<2>>], den |-> <<1>>]
Half == [num |-> [sg |-> 1, mag |-> <<1>>], den |-> <<2>>]

\* the integer n with n <= x < n + 1, for a finite x with lo <= x < hi
RECURSIVE FloorIn(_, _, _)
FloorIn(x, lo, hi) ==
  IF hi - lo = 1 THEN lo
  ELSE LET m == (lo + hi) \div 2
       IN  IF FCmp(x, Float(m, 1)) < 0 THEN FloorIn(x, lo, m) ELSE FloorIn(x, m, hi)

\* x ** n for an integer n >= 0, by squaring
RECURSIVE FPow(_, _)
FPow(x, n) ==
  IF n = 0 THEN One
  ELSE IF n = 1 THEN x
  ELSE With(IF n % 2 = 1 THEN <<x, FPow(x, n - 1)>>
            ELSE With(FPow(x, n \div 2), LAMBDA h : <<h, h>>), LAMBDA p :
         FMul(p[1], p[2]))

\* the function tabulated at 0, 1/h, 2/h, ... (in units of 1/Scale), at
\* 0 <= x <= (Len(table) - 1) / h
Tabulated(table, h, x) ==
  With(FMul(x, Float(h, 1)), LAMBDA xs :
    With(FloorIn(xs, 0, Len(table)), LAMBDA k :
      IF k >= Len(table) - 1 THEN Float(table[Len(table)], Scale)
      ELSE FDiv(FAdd(Float(table[k + 1], 1),
                     FMul(FSub(xs, Float(k, 1)),
                          Float(table[k + 2] - table[k + 1], 1))),
                Float(Scale, 1))))

NormCdfTable ==
  <<500000000, 524917669, 549738225, 574365688, 598706326, 622669718, 646169767, 669125612,
    691462461, 713112298, 734014471, 754116150, 773372648, 791747607, 809213047, 825749288,
    841344746, 855995621, 869705483, 882484772, 894350226, 905324257, 915434278, 924712014,
    933192799, 940914877, 947918721, 954246375, 959940843, 965045513, 969603638, 973657873,
    977249868, 980419921, 983206694, 985646978, 987775527, 989624927, 991225525, 992605393,
    993790335, 994803921, 995667552, 996400545, 997020237, 997542099, 997979863, 998345649,
    998650102, 998902518, 999110975, 999282458, 999422975, 999537669, 999630922, 999706445,
    999767371, 999816330, 999855519, 999886766, 999911583, 999931216, 999946688, 999958833,
    999968329, 999975725, 999981463, 999985898, 999989311, 999991929, 999993928, 999995450,
    999996602, 999997473, 999998127, 999998617, 999998983, 999999255, 999999456, 999999604,
    999999713, 999999793, 999999851, 999999893, 999999924, 999999946, 999999962, 999999973,
    999999981, 999999987, 999999991, 999999994, 999999996, 999999997, 999999998, 999999999,
    999999999, 999999999, 1000000000, 1000000000, 1000000000, 1000000000, 1000000000, 1000000000,
    1000000000, 1000000000, 1000000000, 1000000000, 1000000000, 1000000000, 1000000000, 1000000000,
    1000000000, 1000000000, 1000000000, 1000000000, 1000000000, 1000000000, 1000000000, 1000000000,
    1000000000, 1000000000, 1000000000, 1000000000, 1000000000, 1000000000, 1000000000, 1000000000,
    1000000000>>

NormPdfTable ==
  <<398942280, 398163857, 395837687, 391990898, 386668117, 379930606, 371855094, 362532317,
    352065327, 340567594, 328160969, 314973535, 301137432, 286786668, 272054998, 257073907,
    241970725, 226866927, 211876646, 197105402, 182649085, 168593185, 155012265, 141969695,
    129517596, 117697011, 106538268, 96061501, 86277319, 77187584, 68786276, 61060405,
    53990967, 47553891, 41720985, 36460833, 31739652, 27522081, 23771901, 20452674,
    17528300, 14963496, 12724182, 10777802, 9093563, 7642606, 6398120, 5335399,
    4431848, 3666962, 3022258, 2481191, 2029048, 1652829, 1341119, 1083952,
    872683, 699852, 559062, 444853, 352596, 278382, 218932, 171506,
    133830, 104024, 80540, 62115, 47719, 36516, 27834, 21134,
    15984, 12042, 9036, 6755, 5030, 3730, 2756, 2028,
    1487, 1086, 790, 572, 413, 297, 213, 152,
    108, 76, 54, 38, 26, 18, 13, 9,
    6, 4, 3, 2, 1, 1, 1, 0,
    0, 0, 0, 0, 0, 0, 0, 0,
    0, 0, 0, 0, 0, 0, 0, 0,
    0, 0, 0, 0, 0, 0, 0, 0,
    0>>

LnTable ==
  <<0, 15504187, 30771659, 45809536, 60624622, 75223421, 89612159, 103796794,
    117783036, 131576358, 145182010, 158605030, 171850257, 184922338, 197825743, 210564769,
    223143551, 235566071, 247836164, 259957524, 271933715, 283768173, 295464213, 307025035,
    318453731, 329753286, 340926587, 351976423, 362905494, 373716410, 384411699, 394993808,
    405465108, 415827895, 426084395, 436236767, 446287103, 456237433, 466089730, 475845905,
    485507816, 495077267, 504556011, 513945751, 523248144, 532464799, 541597282, 550647118,
    559615788, 568504735, 577315365, 586049045, 594707108, 603290851, 611801541, 620240410,
    628608659, 636907462, 645137961, 653301272, 661398482, 669430654, 677398824, 685304003,
    693147181>>

ExpTable ==
  <<0, 15747709, 31743407, 47991002, 64494459, 81257807, 98285140, 115580615,
    133148453, 150992945, 169118446, 187529383, 206230249, 225225612, 244520108, 264118448,
    284025417, 304245875, 324784759, 345647083, 366837941, 388362507, 410226035, 432433864,
    454991415, 477904195, 501177800, 524817911, 548830299, 573220827, 597995450, 623160217,
    648721271, 674684853, 701057302, 727845057, 755054657, 782692746, 810766072, 839281489,
    868245957, 897666550, 927550450, 957904953, 988737470, 1020055528, 1051866773, 1084178973,
    1117000017, 1150337916, 1184200811, 1218596969, 1253534787, 1289022796, 1325069660, 1361684180,
    1398875294, 1436652083, 1475023770, 1513999723, 1553589458, 1593802641, 1634649089, 1676138775,
    1718281828>>

\* scipy.stats.norm.cdf
NormCdf(x) ==
  IF IsNaN(x) THEN NaN
  ELSE IF ~IsFinite(x) THEN (IF x.num.sg > 0 THEN One ELSE Zero)
  ELSE With(IF FGe(FAbs(x), Float(8, 1)) THEN One
            ELSE Tabulated(NormCdfTable, 16, FAbs(x)), LAMBDA p :
         IF x.num.sg < 0 THEN FSub(One, p) ELSE p)

\* scipy.stats.norm.pdf
NormPdf(x) ==
  IF IsNaN(x) THEN NaN
  ELSE IF ~IsFinite(x) THEN Zero
  ELSE IF FGe(FAbs(x), Float(8, 1)) THEN Zero
  ELSE Tabulated(NormPdfTable, 16, FAbs(x))

\* log(2)
Ln2 == Float(693147181, Scale)

\* <<m, k>> with x = m * 2^k and 1 <= m < 2, for a finite x > 0
RECURSIVE BinaryExponent(_, _)
BinaryExponent(x, k) ==
  IF FLt(x, One) THEN BinaryExponent(FMul(x, Two), k - 1)
  ELSE IF FGe(x, Two) THEN BinaryExponent(FMul(x, Half), k + 1)
  ELSE <<x, k>>

\* math.log and numpy.log at a finite x > 0
Ln(x) ==
  With(BinaryExponent(x, 0), LAMBDA mk :
    FAdd(FMul(Float(mk[2], 1), Ln2), Tabulated(LnTable, 64, FSub(mk[1], One))))

\* e
Euler == FAdd(Two, Float(718281828, Scale))

\* the largest float, 1.7976931348623157e308, and the largest argument of exp
\* that does not overflow
MaxFloat ==
  [num |-> [sg |-> 1, mag |-> NatShift(<<3157, 4862, 9313, 7976, 1>>, 73)], den |-> <<1>>]
MaxExpArg == FAdd(Float(709, 1), Float(782712893, Scale))

\* a finite x between Base^-80 and Base^77 in magnitude, or zero, by the
\* lengths of its numerator and denominator: within the range of the floats
WithinRange(x) ==
  /\ IsFinite(x)
  /\ Len(x.num.mag) - Len(x.den) <= 76
  /\ (x.num.sg = 0 \/ Len(x.num.mag) - Len(x.den) >= -79)
MinExpArg == Float(-745, 1)

\* math.exp and numpy.exp at a finite x <= MaxExpArg; 0.0 below MinExpArg
Exp(x) ==
  IF FLt(x, MinExpArg) THEN Zero
  ELSE With(FloorIn(x, -746, 711), LAMBDA n :
         With(FAdd(One, Tabulated(ExpTable, 64, FSub(x, Float(n, 1)))), LAMBDA f :
           IF n < 0 THEN FDiv(f, FPow(Euler, -n)) ELSE FMul(f, FPow(Euler, n))))

\* <<m, k>> with x = m * 4^k and 1 <= m < 4, for a finite x > 0
RECURSIVE QuaternaryExponent(_, _)
QuaternaryExponent(x, k) ==
  IF FLt(x, One) THEN QuaternaryExponent(FMul(x, Float(4, 1)), k - 1)
  ELSE IF FGe(x, Float(4, 1)) THEN QuaternaryExponent(FMul(x, Float(1, 4)), k + 1)
  ELSE <<x, k>>

\* the j in lo..hi-1 with ((32 + j) / 32)^2 <= m < ((33 + j) / 32)^2
RECURSIVE RootIn(_, _, _)
RootIn(m, lo, hi) ==
  IF hi - lo = 1 THEN lo
  ELSE LET j == (lo + hi) \div 2
       IN  IF FCmp(m, Float((32 + j) * (32 + j), 1024)) < 0
           THEN RootIn(m, lo, j) ELSE RootIn(m, j, hi)

\* math.sqrt and numpy.sqrt at a finite x >= 0: exact at the squares of the
\* multiples of 1/32 between 1 and 2, times the powers of 4
Sqrt(x) ==
  IF x.num.sg = 0 THEN Zero
  ELSE With(QuaternaryExponent(x, 0), LAMBDA mk :
         With(32 + RootIn(mk[1], 0, 32), LAMBDA s :
           With(FAdd(Float(s, 32),
                     FDiv(FSub(mk[1], Float(s * s, 1024)), Float(2 * s + 1, 32))),
                LAMBDA root :
             IF mk[2] < 0 THEN FDiv(root, FPow(Two, -mk[2]))
             ELSE FMul(root, FPow(Two, mk[2])))))

(***************************************************************************)
(* app/services/greeks.py                                                  *)
(*                                                                         *)
(* A call returns its value or raises; a call that raises is the record    *)
(* [raised |-> the exception's name].  x ** 2 and math.exp raise           *)
(* OverflowError when the result is beyond the largest float.              *)
(***************************************************************************)
Raise(exception) == [raised |-> exception]
IsRaised(r) == "raised" \in DOMAIN r

\* x ** 2 and math.exp(x) raise OverflowError
SquareOverflows(x) ==
  With(FMul(x, x), LAMBDA xx : ~WithinRange(xx) /\ FGt(xx, MaxFloat))
ExpOverflows(x) == FGt(x, MaxExpArg)

\* days_to_expiry / 252.0
YearsToExpiry_unfloored(days_to_expiry) == Float(days_to_expiry, 252)

\* max(days_to_expiry, 1) / 252.0
YearsToExpiry(days_to_expiry) ==
  Float(IF days_to_expiry > 1 THEN days_to_expiry ELSE 1, 252)

\* the pair <<d1, d2>>; the same function is defined in probability.py
_d1_d2(spot, strike, t, iv, r) ==
  IF FLe(t, Zero) \/ FLe(iv, Zero) \/ FLe(spot, Zero) \/ FLe(strike, Zero)
  THEN <<Zero, Zero>>
  ELSE With(FMul(iv, Sqrt(t)), LAMBDA iv_sqrt_t :
         With(FDiv(FAdd(Ln(FDiv(spot, strike)),
                        FMul(FAdd(r, FMul(Half, FMul(iv, iv))), t)),
                   iv_sqrt_t), LAMBDA d1 :
           <<d1, FSub(d1, iv_sqrt_t)>>))

\* _d1_d2 raises: iv ** 2 overflows
_d1_d2_raises(spot, strike, t, iv, r) ==
  /\ ~(FLe(t, Zero) \/ FLe(iv, Zero) \/ FLe(spot, Zero) \/ FLe(strike, Zero))
  /\ SquareOverflows(iv)

black_scholes_price(spot, strike, days_to_expiry, iv, option_type, rate) ==
  With(YearsToExpiry(days_to_expiry), LAMBDA t :
    With(_d1_d2(spot, strike, t, iv, rate), LAMBDA d :
      With(Exp(FNeg(FMul(rate, t))), LAMBDA discount :
        IF option_type = "CALL"
        THEN FSub(FMul(spot, NormCdf(d[1])),
                  FMul(FMul(strike, discount), NormCdf(d[2])))
        ELSE FSub(FMul(FMul(strike, discount), NormCdf(FNeg(d[2]))),
                  FMul(spot, NormCdf(FNeg(d[1])))))))

ZeroGreeks ==
  [price |-> Zero, delta |-> Zero, gamma |-> Zero, theta |-> Zero,
   vega |-> Zero, rho |-> Zero]

compute_greeks_put_delta_unshifted(spot, strike, days_to_expiry, iv, option_type, rate) ==
  With(YearsToExpiry(days_to_expiry), LAMBDA t :
    IF FLe(t, Zero) \/ FLe(iv, Zero) \/ FLe(spot, Zero) \/ FLe(strike, Zero)
    THEN ZeroGreeks
    ELSE [ZeroGreeks EXCEPT !.delta = NormCdf(_d1_d2(spot, strike, t, iv, rate)[1])])

compute_greeks_strike_unguarded(spot, strike, days_to_expiry, iv, option_type, rate) ==
  With(YearsToExpiry(days_to_expiry), LAMBDA t :
    IF FLe(t, Zero) \/ FLe(iv, Zero) \/ FLe(spot, Zero)
    THEN ZeroGreeks
    ELSE With(NormCdf(_d1_d2(spot, strike, t, iv, rate)[1]), LAMBDA cdf_d1 :
           [ZeroGreeks EXCEPT !.delta = IF option_type = "CALL" THEN cdf_d1
                                         ELSE FSub(cdf_d1, One)]))

\* the greeks from d = <<d1, d2>>, the discount factor and the price
GreeksAt(spot, strike, t, iv, option_type, rate, d, discount, price) ==
  With(NormCdf(d[1]), LAMBDA cdf_d1 :
    With(NormPdf(d[1]), LAMBDA pdf_d1 :
      With(Sqrt(t), LAMBDA sqrt_t :
        [price |-> price,
         delta |-> IF option_type = "CALL" THEN cdf_d1 ELSE FSub(cdf_d1, One),
         gamma |-> FDiv(pdf_d1, FMul(FMul(spot, iv), sqrt_t)),
         theta |-> FDiv(FSub(FNeg(FDiv(FMul(FMul(spot, pdf_d1), iv), FMul(Two, sqrt_t))),
                             FMul(FMul(FMul(rate, strike), discount),
                                  NormCdf(IF option_type = "CALL" THEN d[2]
                                          ELSE FNeg(d[2])))),
                        Float(252, 1)),
         vega |-> FDiv(FMul(FMul(spot, pdf_d1), sqrt_t), Hundred),
         rho |-> IF option_type = "CALL"
                 THEN FMul(FMul(FMul(t, strike), discount), NormCdf(d[2]))
                 ELSE FMul(FMul(FMul(FNeg(t), strike), discount), NormCdf(FNeg(d[2])))])))

compute_greeks(spot, strike, days_to_expiry, iv, option_type, rate) ==
  With(YearsToExpiry(days_to_expiry), LAMBDA t :
    IF FLe(t, Zero) \/ FLe(iv, Zero) \/ FLe(spot, Zero) \/ FLe(strike, Zero)
    THEN ZeroGreeks
    ELSE IF _d1_d2_raises(spot, strike, t, iv, rate) \/ ExpOverflows(FNeg(FMul(rate, t)))
    THEN Raise("OverflowError")
    ELSE GreeksAt(spot, strike, t, iv, option_type, rate,
                  _d1_d2(spot, strike, t, iv, rate), Exp(FNeg(FMul(rate, t))),
                  black_scholes_price(spot, strike, days_to_expiry, iv, option_type, rate)))

\* ---- the arguments the calls are drawn from ----

OptionType == {"CALL", "PUT"}

\* GreeksRequest: any floats and any integer number of days
GreeksSpots == {Float(-5, 1), Zero, Float(100, 1)}
GreeksStrikes == {Zero, Float(100, 1), Float(110, 1)}
GreeksDays == {-3, 0, 30, 252}

\* a volatility whose square is beyond the floats' range, 1e200
HugeIV == [num |-> [sg |-> 1, mag |-> NatShift(<<1>>, 50)], den |-> <<1>>]

GreeksIVs == {Float(-1, 10), Zero, Float(2, 10), HugeIV}
GreeksRates == {Zero, Float(5, 100)}

(***************************************************************************)
(* app/services/probability.py                                             *)
(*                                                                         *)
(* The results that leave the range of a float are modelled where the      *)
(* models of the suite meet them: a product or quotient beyond the largest *)
(* float is +inf or -inf, one below the smallest float is 0.0, x ** 2 and  *)
(* math.exp raise OverflowError, a float division by 0.0 raises            *)
(* ZeroDivisionError, and math.exp(x) is 1.0 for |x| below half an ulp.    *)
(*                                                                         *)
(* The sizes of the lattices and of the simulations (50 steps, 100 time    *)
(* steps, 5000 and 10000 paths in the source) are bounds of the model.     *)
(***************************************************************************)

\* the smallest positive float, 4.940656458412465e-324: what rounds below it
\* is 0.0
MinFloat ==
  [num |-> [sg |-> 1, mag |-> <<4650, 8412, 5645, 9406, 4>>], den |-> NatShift(<<1>>, 85)]

\* half the distance from 1.0 to the next float, 1.1102230246251565e-16
HalfUlp ==
  [num |-> [sg |-> 1, mag |-> <<1565, 4625, 2302, 1102, 1>>], den |-> NatShift(<<1>>, 8)]

\* the float a finite real is stored as, when it leaves the range of floats
Ieee(x) ==
  IF WithinRange(x) \/ ~IsFinite(x) THEN x
  ELSE IF FGt(FAbs(x), MaxFloat) THEN (IF x.num.sg > 0 THEN PosInf ELSE NegInf)
  ELSE IF FLt(FAbs(x), MinFloat) THEN Zero
  ELSE x

\* numpy.log: -inf at 0, NaN below 0 (a warning, no exception)
NpLog(x) ==
  IF IsNaN(x) \/ x.num.sg < 0 THEN NaN
  ELSE IF ~IsFinite(x) THEN PosInf
  ELSE IF x.num.sg = 0 THEN NegInf
  ELSE Ln(x)

\* numpy.exp: inf on overflow (a warning, no exception)
NpExp(x) ==
  IF IsNaN(x) THEN NaN
  ELSE IF FGt(x, MaxExpArg) THEN PosInf
  ELSE IF FLt(FAbs(x), HalfUlp) THEN One
  ELSE Exp(x)

\* x ** 2 where it does not raise
Square(x) == Ieee(FMul(x, x))

\* math.exp where it does not raise
MathExp(x) ==
  IF IsNaN(x) THEN NaN
  ELSE IF ~IsFinite(x) THEN (IF x.num.sg > 0 THEN PosInf ELSE Zero)
  ELSE IF FLt(FAbs(x), HalfUlp) THEN One
  ELSE Exp(x)

\* math.log and math.sqrt raise ValueError outside their domain
LogRaises(x) == ~IsNaN(x) /\ x.num.sg <= 0
SqrtRaises(x) == ~IsNaN(x) /\ x.num.sg < 0

\* math.log and math.sqrt where they do not raise
MathLog(x) == IF IsNaN(x) THEN NaN ELSE IF ~IsFinite(x) THEN PosInf ELSE Ln(x)
MathSqrt(x) == IF IsNaN(x) THEN NaN ELSE IF ~IsFinite(x) THEN PosInf ELSE Sqrt(x)

\* a float division raises ZeroDivisionError
DivisionRaises(divisor) == IsFinite(divisor) /\ divisor.num.sg = 0

black_scholes_d2_probability(spot, strike, days_to_expiry, iv, option_type) ==
  With(YearsToExpiry(days_to_expiry), LAMBDA t :
    IF _d1_d2_raises(spot, strike, t, iv, Zero) THEN Raise("OverflowError")
    ELSE With(_d1_d2(spot, strike, t, iv, Zero)[2], LAMBDA d2 :
           NormCdf(IF option_type = "CALL" THEN d2 ELSE FNeg(d2))))

lognormal_itm_probability(spot, strike, days_to_expiry, iv) ==
  With(YearsToExpiry(days_to_expiry), LAMBDA t :
    IF FLe(spot, Zero) \/ FLe(strike, Zero) \/ FLe(iv, Zero) \/ FLe(t, Zero) THEN Zero
    ELSE IF SquareOverflows(iv) THEN Raise("OverflowError")
    ELSE With(FSub(Ln(spot), FMul(FMul(Half, Square(iv)), t)), LAMBDA mu :
           With(FMul(iv, Sqrt(t)), LAMBDA sigma :
             FSub(One, NormCdf(FDiv(FSub(Ln(strike), mu), sigma))))))

expected_move(spot, days_to_expiry, iv) ==
  With(YearsToExpiry(days_to_expiry), LAMBDA t :
    IF FLe(spot, Zero) \/ FLe(iv, Zero) \/ FLe(t, Zero) THEN Zero
    ELSE Ieee(FMul(FMul(spot, iv), Sqrt(t))))

geometric_brownian_motion_probability(spot, strike, days_to_expiry, iv, r) ==
  With(YearsToExpiry(days_to_expiry), LAMBDA t :
    IF FLe(spot, Zero) \/ FLe(strike, Zero) \/ FLe(iv, Zero) \/ FLe(t, Zero) THEN Zero
    ELSE IF SquareOverflows(iv) THEN Raise("OverflowError")
    ELSE With(FAdd(Ln(spot), FMul(FSub(r, FMul(Half, Square(iv))), t)), LAMBDA mu :
           With(FMul(iv, Sqrt(t)), LAMBDA sigma :
             FSub(One, NormCdf(FDiv(FSub(Ln(strike), mu), sigma))))))

risk_neutral_density_probability(spot, strike, days_to_expiry, iv) ==
  With(YearsToExpiry(days_to_expiry), LAMBDA t :
    IF FLe(spot, Zero) \/ FLe(strike, Zero) \/ FLe(iv, Zero) \/ FLe(t, Zero) THEN Zero
    ELSE IF _d1_d2_raises(spot, strike, t, iv, Zero) THEN Raise("OverflowError")
    ELSE NormCdf(_d1_d2(spot, strike, t, iv, Zero)[2]))

\* the defaults of sabr_probability
sabr_rho == Float(-3, 10)
sabr_nu == Float(4, 10)

\* sabr_probability from iv_sabr on: the d2 probability at the SABR volatility
sabr_d2_probability(spot, strike, t, iv_sabr) ==
  IF _d1_d2_raises(spot, strike, t, iv_sabr, Zero) THEN Raise("OverflowError")
  ELSE NormCdf(_d1_d2(spot, strike, t, iv_sabr, Zero)[2])

\* sabr_probability from z on
sabr_from_z(spot, strike, t, alpha, z) ==
  IF IsFinite(z) /\ SquareOverflows(z) THEN Raise("OverflowError")
  ELSE With(FAdd(FSub(One, FMul(FMul(Two, sabr_rho), z)), Square(z)), LAMBDA radicand :
    IF SqrtRaises(radicand) THEN Raise("ValueError")
    ELSE With(FDiv(FSub(FAdd(MathSqrt(radicand), z), sabr_rho), FSub(One, sabr_rho)),
              LAMBDA ratio :
      IF LogRaises(ratio) THEN Raise("ValueError")
      ELSE With(MathLog(ratio), LAMBDA x_z :
        IF FLt(FAbs(z), Float(1, 1000000))
        THEN sabr_d2_probability(spot, strike, t, FDiv(alpha, Sqrt(spot)))
        ELSE IF DivisionRaises(x_z) THEN Raise("ZeroDivisionError")
        ELSE sabr_d2_probability(spot, strike, t,
                                 FMul(FDiv(alpha, Sqrt(spot)), FDiv(z, x_z))))))

sabr_probability(spot, strike, days_to_expiry, iv) ==
  With(YearsToExpiry(days_to_expiry), LAMBDA t :
    IF FLe(spot, Zero) \/ FLe(strike, Zero) \/ FLe(iv, Zero) \/ FLe(t, Zero) THEN Zero
    ELSE With(Ieee(FMul(iv, Sqrt(spot))), LAMBDA alpha :
      IF DivisionRaises(alpha) THEN Raise("ZeroDivisionError")
      ELSE sabr_from_z(spot, strike, t, alpha,
                       Ieee(FDiv(Ieee(FMul(Ieee(FDiv(sabr_nu, alpha)),
                                           FSub(Sqrt(spot), Sqrt(strike)))),
                                 Half)))))

\* historical_features.get('trend', 0.0)
Trend(historical_features) ==
  IF "trend" \in DOMAIN historical_features THEN historical_features.trend ELSE Zero

\* machine_learning_probability from log_odds on
ml_from_log_odds(log_odds, historical_features) ==
  IF IsFinite(log_odds) /\ ExpOverflows(FNeg(log_odds)) THEN Raise("OverflowError")
  ELSE With(FDiv(One, FAdd(One, MathExp(FNeg(log_odds)))), LAMBDA prob :
    PyMax(Zero,
          PyMin(One,
                IF historical_features = None \/ DOMAIN historical_features = {}
                THEN prob
                ELSE FMul(prob,
                          FAdd(One, FMul(Float(1, 10), Trend(historical_features)))))))

machine_learning_probability(spot, strike, days_to_expiry, iv, historical_features) ==
  With(YearsToExpiry(days_to_expiry), LAMBDA t :
    IF FLe(spot, Zero) \/ FLe(strike, Zero) \/ FLe(iv, Zero) \/ FLe(t, Zero) THEN Zero
    ELSE With(Ieee(FMul(iv, Sqrt(t))), LAMBDA scale :
      IF DivisionRaises(scale) THEN Raise("ZeroDivisionError")
      ELSE ml_from_log_odds(
             Ieee(FDiv(FMul(Float(-2, 1), FSub(Ieee(FDiv(strike, spot)), One)), scale)),
             historical_features)))

\* math.factorial and math.comb
RECURSIVE Factorial(_)
Factorial(n) == IF n <= 1 THEN 1 ELSE n * Factorial(n - 1)
Comb(n, k) == Factorial(n) \div (Factorial(k) * Factorial(n - k))

\* base ** n raises OverflowError, for a float base and an integer n >= 0
PowOverflows(base, n) ==
  n > 0 /\ With(FPow(base, n), LAMBDA power :
             ~WithinRange(power) /\ FGt(FAbs(power), MaxFloat))

\* the steps of the two lattices (steps = 50 in the source)
TreeSteps == 2

\* probs after the iterations i..steps of the loop of binomial_itm_probability
RECURSIVE binomial_probs(_, _, _, _, _, _)
binomial_probs(spot, strike, u, d, steps, i) ==
  IF i > steps THEN <<>>
  ELSE (IF FGe(FMul(FMul(spot, FPow(u, i)), FPow(d, steps - i)), strike)
        THEN <<FMul(FMul(Float(Comb(steps, i), 1), FPow(Half, i)),
                    FPow(FSub(One, Half), steps - i))>>
        ELSE <<>>)
         \o binomial_probs(spot, strike, u, d, steps, i + 1)

binomial_itm_probability(spot, strike, days_to_expiry, iv, steps) ==
  With(YearsToExpiry(days_to_expiry), LAMBDA t :
    IF FLe(t, Zero) \/ FLe(iv, Zero) THEN Zero
    ELSE With(FMul(iv, Sqrt(FDiv(t, Float(steps, 1)))), LAMBDA x :
      IF ExpOverflows(x) THEN Raise("OverflowError")
      ELSE With(MathExp(x), LAMBDA u :
        IF PowOverflows(u, steps) THEN Raise("OverflowError")
        ELSE FSum(binomial_probs(spot, strike, u, FDiv(One, u), steps, 0)))))

\* probs after the iterations j.. of the inner loop of trinomial_tree_probability
RECURSIVE trinomial_row(_, _, _, _)
trinomial_row(q, steps, i, j) ==
  IF j > steps - i THEN <<>>
  ELSE (IF FGe(FMul(FMul(q.spot, FPow(q.u, i)), FPow(q.d, j)), q.strike) /\ i + j <= steps
        THEN <<FMul(FMul(FMul(Float(Factorial(steps)
                                      \div (Factorial(i) * Factorial(j)
                                              * Factorial(steps - i - j)), 1),
                                FPow(q.pu, i)),
                           FPow(q.pd, j)),
                      FPow(q.pm, steps - i - j))>>
        ELSE <<>>)
         \o trinomial_row(q, steps, i, j + 1)

\* probs after the iterations i..steps of the outer loop
RECURSIVE trinomial_probs(_, _, _)
trinomial_probs(q, steps, i) ==
  IF i > steps THEN <<>>
  ELSE trinomial_row(q, steps, i, 0) \o trinomial_probs(q, steps, i + 1)

\* trinomial_tree_probability from the probabilities pu and pd on
trinomial_from_probabilities(spot, strike, steps, u, d, pu, pd) ==
  IF PowOverflows(u, steps) THEN Raise("OverflowError")
  ELSE PyMin(One,
             FSum(trinomial_probs([spot |-> spot, strike |-> strike, u |-> u, d |-> d,
                                   pu |-> pu, pd |-> pd, pm |-> FSub(FSub(One, pu), pd)],
                                  steps, 0)))

\* the floats a and b as fractions over one denominator: the values are
\* those of a and b
SameDen(a, b) ==
  IF ~IsFinite(a) \/ ~IsFinite(b) \/ a.den = b.den THEN <<a, b>>
  ELSE <<[num |-> [sg |-> a.num.sg, mag |-> NatMul(a.num.mag, b.den)],
          den |-> NatMul(a.den, b.den)],
         [num |-> [sg |-> b.num.sg, mag |-> NatMul(b.num.mag, a.den)],
          den |-> NatMul(a.den, b.den)]>>

\* trinomial_tree_probability from the factors u and d on
trinomial_from_factors(spot, strike, steps, u, d) ==
  With(FSub(u, d), LAMBDA spread :
    IF DivisionRaises(spread) THEN Raise("ZeroDivisionError")
    ELSE With(SameDen(Square(FDiv(FSub(One, d), spread)),
                      Square(FDiv(FSub(u, One), spread))), LAMBDA p :
           trinomial_from_probabilities(spot, strike, steps, u, d, p[1], p[2])))

trinomial_tree_probability(spot, strike, days_to_expiry, iv, steps) ==
  With(YearsToExpiry(days_to_expiry), LAMBDA t :
    IF FLe(t, Zero) \/ FLe(iv, Zero) THEN Zero
    ELSE With(FMul(iv, Sqrt(FMul(Float(3, 2), FDiv(t, Float(steps, 1))))), LAMBDA x :
      IF ExpOverflows(x) THEN Raise("OverflowError")
      ELSE With(MathExp(x), LAMBDA u :
        trinomial_from_factors(spot, strike, steps, u, FDiv(One, u)))))

(***************************************************************************)
(* numpy.random: the global generator.  A generator seeded by the program  *)
(* produces a sequence fixed by the seed; the generator the interpreter    *)
(* starts with is seeded from the operating system and produces any sample *)
(* of the sample space.  SeededNormals and SeededCounts stand for the      *)
(* sequences of MT19937 after seed(42): the models only read them through  *)
(* StandardNormal and Poisson.                                             *)
(***************************************************************************)

\* the sample space of an unseeded standard normal draw
Normals == {Float(-3, 2), Float(-1, 2), Float(1, 2), Float(3, 2)}

\* the draws that follow np.random.seed(42), repeated with the period of the table
SeededNormals == <<Float(1, 2), Float(-3, 2)>>
SeededCounts == <<1, 0>>

StreamPeriod == Len(SeededNormals)

\* np.random.seed(42)
Seed42 == [seeded |-> TRUE, seed |-> 42, position |-> 0]

\* the generator after n draws
Advance(g, n) ==
  IF g.seeded THEN [g EXCEPT !.position = (@ + n) % StreamPeriod] ELSE g

\* the draw number k + 1 from now of a seeded generator
StandardNormal(g, k) == SeededNormals[((g.position + k) % StreamPeriod) + 1]
Poisson(g, k) == SeededCounts[((g.position + k) % StreamPeriod) + 1]

\* np.random.standard_normal(n): the samples a generator can return
Samples(g, n) ==
  IF g.seeded THEN {[k \in 1..n |-> StandardNormal(g, k - 1)]}
  ELSE [1..n -> Normals]

\* the paths of the simulations (n_paths = 10000 and 5000 in the source) and
\* their time steps (dt = t / 100.0 in the source)
Paths == 2
TimeSteps == 2

\* the float a simulation keeps after a step: the model keeps six decimals
\* of a magnitude between 1e-6 and 1000, and every digit of any other
Rounded(x) ==
  IF ~IsFinite(x) \/ FLt(FAbs(x), Float(1, 1000000)) \/ FGe(FAbs(x), Float(1000, 1)) THEN x
  ELSE With(FloorIn(x, -1000, 1000), LAMBDA n :
    With(FMul(FSub(x, Float(n, 1)), Float(1000, 1)), LAMBDA thousandths :
      With(FloorIn(thousandths, 0, 1000), LAMBDA k :
        Float(n * 1000000 + k * 1000
                + FloorIn(FMul(FSub(thousandths, Float(k, 1)), Float(1000, 1)), 0, 1000),
              1000000))))

\* the value of a call and the generator it leaves behind
Outcome(value, generator) == [value |-> value, generator |-> generator]

\* sum(st >= strike) for the samples z
RECURSIVE CountAbove(_, _, _, _, _, _)
CountAbove(spot, strike, t, iv, z, k) ==
  IF k > Len(z) THEN 0
  ELSE (IF FGe(FMul(spot, NpExp(FAdd(FMul(FMul(Float(-1, 2), Square(iv)), t),
                                     FMul(FMul(iv, Sqrt(t)), z[k])))),
               strike)
        THEN 1 ELSE 0)
         + CountAbove(spot, strike, t, iv, z, k + 1)

\* monte_carlo_itm_probability when np.random.standard_normal(n_paths) returns z
monte_carlo_itm_probability(spot, strike, days_to_expiry, iv, n_paths, g, z) ==
  With(YearsToExpiry(days_to_expiry), LAMBDA t :
    IF FLe(t, Zero) \/ FLe(iv, Zero) THEN Outcome(Zero, g)
    ELSE IF SquareOverflows(iv) THEN Outcome(Raise("OverflowError"), Advance(g, n_paths))
    ELSE Outcome(FDiv(Float(CountAbove(spot, strike, t, iv, z, 1), 1), Float(n_paths, 1)),
                 Advance(g, n_paths)))

\* the defaults of heston_stochastic_volatility_probability
heston_kappa == Float(2, 1)
heston_theta == Float(4, 100)
heston_sigma_v == Float(3, 10)
heston_rho == Float(-7, 10)

\* s after the price step of heston_steps, from v after the variance step
heston_price_step(q, s, v, z1) ==
  Rounded(FMul(s, MathExp(Rounded(FAdd(FMul(FMul(Float(-1, 2), v), q.dt),
                                       FMul(FMul(Rounded(Sqrt(v)), Rounded(Sqrt(q.dt))),
                                            z1))))))

\* v after the variance step of heston_steps
heston_variance_step(q, v, z2) ==
  PyMax(Float(1, 100),
        Rounded(FAdd(FAdd(v, FMul(FMul(heston_kappa, FSub(heston_theta, v)), q.dt)),
                     FMul(FMul(FMul(heston_sigma_v, Rounded(Sqrt(v))), Rounded(Sqrt(q.dt))),
                          z2))))

\* <<s, v>> of path p after its steps j, j + 1, ... from <<s, v>>
RECURSIVE heston_steps(_, _, _, _, _)
heston_steps(q, p, j, s, v) ==
  IF j = q.n_steps THEN <<s, v>>
  ELSE With(StandardNormal(Seed42, 2 * (p * q.n_steps + j)), LAMBDA z1 :
    With(heston_variance_step(q, v,
           Rounded(FAdd(FMul(heston_rho, z1),
                        FMul(Sqrt(FSub(One, Square(heston_rho))),
                             StandardNormal(Seed42, 2 * (p * q.n_steps + j) + 1))))),
         LAMBDA v1 :
      With(heston_price_step(q, s, v1, z1), LAMBDA s1 :
        IF IsNaN(v1) \/ IsNaN(s1) THEN <<NaN, NaN>>
        ELSE heston_steps(q, p, j + 1, s1, v1))))

\* itm_count of the paths p, p + 1, ...
RECURSIVE heston_count(_, _)
heston_count(q, p) ==
  IF p = q.n_paths THEN 0
  ELSE (IF FGe(heston_steps(q, p, 0, q.spot, q.v0)[1], q.strike) THEN 1 ELSE 0)
         + heston_count(q, p + 1)

heston_stochastic_volatility_probability(spot, strike, days_to_expiry, iv, n_paths, g) ==
  With(YearsToExpiry(days_to_expiry), LAMBDA t :
    IF FLe(t, Zero) \/ FLe(iv, Zero) THEN Outcome(Zero, g)
    ELSE IF SquareOverflows(iv) THEN Outcome(Raise("OverflowError"), g)
    ELSE Outcome(FDiv(Float(heston_count([spot |-> spot, strike |-> strike,
                                          v0 |-> Square(iv),
                                          dt |-> FDiv(t, Float(TimeSteps, 1)),
                                          n_steps |-> TimeSteps, n_paths |-> n_paths], 0), 1),
                      Float(n_paths, 1)),
                 Advance(Seed42, 2 * TimeSteps * n_paths)))

\* the defaults of jump_diffusion_probability
lambda_jump == Float(1, 10)
mu_jump == Float(-5, 100)
sigma_jump == Float(15, 100)

\* s after the jumps left, the first of them drawn as draw k + 1
RECURSIVE jump_sizes(_, _, _)
jump_sizes(s, n_jumps, k) ==
  IF n_jumps = 0 THEN s
  ELSE jump_sizes(Rounded(FMul(s, MathExp(FAdd(mu_jump,
                                               FMul(sigma_jump, StandardNormal(Seed42, k)))))),
                  n_jumps - 1, k + 1)

\* s of a path of jump_diffusion_probability before its jumps
jump_diffusion_step(q, z) ==
  Rounded(FMul(q.spot, MathExp(FAdd(FMul(FMul(Float(-1, 2), Square(q.iv)), q.t),
                                    FMul(FMul(q.iv, Rounded(Sqrt(q.t))), z)))))

\* <<itm_count, draws>> of the paths p, p + 1, ..., k draws made so far
RECURSIVE jump_count(_, _, _)
jump_count(q, p, k) ==
  IF p = q.n_paths THEN <<0, k>>
  ELSE With(Poisson(Seed42, k), LAMBDA n_jumps :
    With(jump_sizes(jump_diffusion_step(q, StandardNormal(Seed42, k + 1)), n_jumps, k + 2),
         LAMBDA s :
      With(IF FGe(s, q.strike) THEN 1 ELSE 0, LAMBDA itm :
        With(jump_count(q, p + 1, k + 2 + n_jumps), LAMBDA rest :
          <<itm + rest[1], rest[2]>>))))

jump_diffusion_probability(spot, strike, days_to_expiry, iv, n_paths, g) ==
  With(YearsToExpiry(days_to_expiry), LAMBDA t :
    IF FLe(t, Zero) \/ FLe(iv, Zero) THEN Outcome(Zero, g)
    ELSE IF SquareOverflows(iv) THEN Outcome(Raise("OverflowError"), Advance(Seed42, 2))
    ELSE With(jump_count([spot |-> spot, strike |-> strike, iv |-> iv, t |-> t,
                          n_paths |-> n_paths], 0, 0), LAMBDA run :
           Outcome(FDiv(Float(run[1], 1), Float(n_paths, 1)), Advance(Seed42, run[2]))))

\* the defaults of garch_probability
garch_alpha == Float(1, 10)
garch_beta == Float(85, 100)
garch_omega == Float(1, 10000)

\* v after a step of garch_steps that took s to s1 by the factor growth
garch_variance_step(v, s1, growth) ==
  PyMax(Float(1, 10000),
        Rounded(FAdd(FAdd(garch_omega,
                          FMul(garch_alpha,
                               IF FGt(s1, Zero)
                               THEN Square(Rounded(MathLog(FDiv(s1, FDiv(s1, growth)))))
                               ELSE Zero)),
                     FMul(garch_beta, v))))

\* s of path p after its steps j, j + 1, ... from <<s, v>>
RECURSIVE garch_steps(_, _, _, _, _)
garch_steps(q, p, j, s, v) ==
  IF j = q.n_steps THEN s
  ELSE With(Rounded(MathExp(Rounded(
              FAdd(FMul(FMul(Float(-1, 2), v), q.dt),
                   FMul(FMul(Rounded(Sqrt(v)), Rounded(Sqrt(q.dt))),
                        StandardNormal(Seed42, p * q.n_steps + j)))))), LAMBDA growth :
    With(Rounded(FMul(s, growth)), LAMBDA s1 :
      With(garch_variance_step(v, s1, growth), LAMBDA v1 :
        IF IsNaN(s1) \/ IsNaN(v1) THEN NaN
        ELSE garch_steps(q, p, j + 1, s1, v1))))

RECURSIVE garch_count(_, _)
garch_count(q, p) ==
  IF p = q.n_paths THEN 0
  ELSE (IF FGe(garch_steps(q, p, 0, q.spot, Square(q.iv)), q.strike) THEN 1 ELSE 0)
         + garch_count(q, p + 1)

garch_probability(spot, strike, days_to_expiry, iv, n_paths, g) ==
  With(YearsToExpiry(days_to_expiry), LAMBDA t :
    IF FLe(t, Zero) \/ FLe(iv, Zero) THEN Outcome(Zero, g)
    ELSE IF SquareOverflows(iv) THEN Outcome(Raise("OverflowError"), Seed42)
    ELSE Outcome(FDiv(Float(garch_count([spot |-> spot, strike |-> strike, iv |-> iv,
                                         dt |-> FDiv(t, Float(TimeSteps, 1)),
                                         n_steps |-> TimeSteps, n_paths |-> n_paths], 0), 1),
                      Float(n_paths, 1)),
                 Advance(Seed42, TimeSteps * n_paths)))

(***************************************************************************)
(* app/api/routes.py: the two endpoints of the probability suite           *)
(***************************************************************************)

\* a probability request: the fields of ProbabilityRequest the models read
Snapshot(spot, strike, days_to_expiry, iv) ==
  [spot |-> spot, strike |-> strike, days_to_expiry |-> days_to_expiry, iv |-> iv]

\* a volatility at the lower end of the floats' range, 1e-310
TinyIV == [num |-> [sg |-> 1, mag |-> <<100>>], den |-> NatShift(<<1>>, 78)]

Snapshots ==
  {Snapshot(Float(100, 1), Float(100, 1), 30, Float(2, 10)),
   Snapshot(Float(100, 1), Float(110, 1), 30, Float(2, 10)),
   Snapshot(Float(100, 1), Float(110, 1), 0, Float(2, 10)),
   Snapshot(Float(100, 1), Float(600, 1), 1, Float(2, 10)),
   Snapshot(Float(100, 1), Float(110, 1), 30, HugeIV),
   Snapshot(Float(100, 1), Float(110, 1), 30, TinyIV),
   Snapshot(Float(100, 1), Float(110, 1), 30, Zero),
   Snapshot(Float(100, 1), Float(100, 1), -3, Float(2, 10))}
    \cup {Snapshot(Float(100, 1), Float(strike, 1), days_to_expiry, Float(-2, 10)) :
            strike \in {90, 100, 110, 120, 600}, days_to_expiry \in {0, 30}}

\* POST /probability from the Monte Carlo call on
post_probability_from_mc(req, d2_prob, log_prob, bin_prob, mc) ==
  IF IsRaised(mc.value) THEN mc
  ELSE Outcome([d2_probability |-> d2_prob,
                lognormal_itm_probability |-> log_prob,
                binomial_itm_probability |-> bin_prob,
                monte_carlo_itm_probability |-> mc.value,
                expected_move |-> expected_move(req.spot, req.days_to_expiry, req.iv)],
               mc.generator)

\* POST /probability when np.random.standard_normal returns z: the first
\* exception of a model is the exception of the request
post_probability(req, g, z) ==
  With(black_scholes_d2_probability(req.spot, req.strike, req.days_to_expiry, req.iv,
                                    req.option_type), LAMBDA d2_prob :
    IF IsRaised(d2_prob) THEN Outcome(d2_prob, g)
    ELSE With(lognormal_itm_probability(req.spot, req.strike, req.days_to_expiry, req.iv),
              LAMBDA log_prob :
      IF IsRaised(log_prob) THEN Outcome(log_prob, g)
      ELSE With(binomial_itm_probability(req.spot, req.strike, req.days_to_expiry, req.iv,
                                         TreeSteps), LAMBDA bin_prob :
        IF IsRaised(bin_prob) THEN Outcome(bin_prob, g)
        ELSE post_probability_from_mc(req, d2_prob, log_prob, bin_prob,
               monte_carlo_itm_probability(req.spot, req.strike, req.days_to_expiry,
                                           req.iv, Paths, g, z)))))

\* iv_for_strike with ivSource = "chain" on a chain whose one entry for the
\* strike quotes ivv: a quote above 1 is a percentage
iv_for_strike(strike, ivv) ==
  IF FGt(ivv, Zero) \/ (ivv.num.sg # 0 /\ strike.num.sg # 0)
  THEN (IF FGt(ivv, One) THEN FDiv(ivv, Float(100, 1)) ELSE ivv)
  ELSE Float(2, 10)

\* try: value except Exception: default
Except(value, default) == IF IsRaised(value) THEN default ELSE value

\* the row of strike k from the outcomes of the four simulations
HeatmapRowOf(spot_val, k, dte, iv_ann, mc, heston, jump, garch) ==
  Outcome(
    [strike |-> k,
     d2_probability |->
       Except(black_scholes_d2_probability(spot_val, k, dte, iv_ann, "CALL"), Zero),
     monte_carlo_itm_probability |-> Except(mc.value, Zero),
     expected_move |-> expected_move(spot_val, dte, iv_ann),
     iv |-> iv_ann,
     gbm_probability |->
       Except(geometric_brownian_motion_probability(spot_val, k, dte, iv_ann, Zero), None),
     binomial_probability |->
       Except(binomial_itm_probability(spot_val, k, dte, iv_ann, TreeSteps), None),
     trinomial_probability |->
       Except(trinomial_tree_probability(spot_val, k, dte, iv_ann, TreeSteps), None),
     heston_probability |-> Except(heston.value, None),
     sabr_probability |-> Except(sabr_probability(spot_val, k, dte, iv_ann), None),
     jump_diffusion_probability |-> Except(jump.value, None),
     garch_probability |-> Except(garch.value, None),
     rnd_probability |->
       Except(risk_neutral_density_probability(spot_val, k, dte, iv_ann), None),
     ml_probability |->
       Except(machine_learning_probability(spot_val, k, dte, iv_ann, <<>>), None)],
    garch.generator)

\* the simulations of a row from the jump-diffusion model on
HeatmapRowFromJump(spot_val, k, dte, iv_ann, mc, heston, jump) ==
  HeatmapRowOf(spot_val, k, dte, iv_ann, mc, heston, jump,
               garch_probability(spot_val, k, dte, iv_ann, Paths, jump.generator))

\* the simulations of a row from the Heston model on
HeatmapRowFromHeston(spot_val, k, dte, iv_ann, mc, heston) ==
  HeatmapRowFromJump(spot_val, k, dte, iv_ann, mc, heston,
                     jump_diffusion_probability(spot_val, k, dte, iv_ann, Paths,
                                                heston.generator))

\* the simulations of a row from the Monte Carlo model on
HeatmapRowFromMonteCarlo(spot_val, k, dte, iv_ann, mc) ==
  HeatmapRowFromHeston(spot_val, k, dte, iv_ann, mc,
                       heston_stochastic_volatility_probability(spot_val, k, dte, iv_ann,
                                                                Paths, mc.generator))

\* the outcomes of monte_carlo_itm_probability on the generator g
MonteCarloOutcomes(spot, strike, days_to_expiry, iv, g) ==
  {monte_carlo_itm_probability(spot, strike, days_to_expiry, iv, Paths, g, z) :
     z \in Samples(g, Paths)}

(***************************************************************************)
(* app/services/volatility.py: the implied-volatility solver               *)
(***************************************************************************)

\* the closed-form price from d1, d2 and the discount factor
_black_scholes_price_at(spot, strike, option_type, d1, d2, discount) ==
  IF option_type = "CALL"
  THEN FSub(FMul(spot, NormCdf(d1)), FMul(FMul(strike, discount), NormCdf(d2)))
  ELSE FSub(FMul(FMul(strike, discount), NormCdf(FNeg(d2))), FMul(spot, NormCdf(FNeg(d1))))

\* the closed-form price, or the exception of spot / strike
_black_scholes_price(spot, strike, t, r, iv, option_type) ==
  IF FLe(t, Zero) \/ FLe(iv, Zero)
  THEN PyMax(Zero, IF option_type = "CALL" THEN FSub(spot, strike) ELSE FSub(strike, spot))
  ELSE IF IsFinite(strike) /\ strike.num.sg = 0
  THEN Raise("ZeroDivisionError")
  ELSE With(FMul(iv, Sqrt(t)), LAMBDA iv_sqrt_t :
    With(FDiv(FAdd(NpLog(FDiv(spot, strike)),
                   FMul(FAdd(r, FMul(Half, FMul(iv, iv))), t)),
              iv_sqrt_t), LAMBDA d1 :
      _black_scholes_price_at(spot, strike, option_type, d1, FSub(d1, iv_sqrt_t),
                              NpExp(FMul(FNeg(r), t)))))

\* the defaults of implied_volatility
tol == Float(1, 100000)
max_iter == 50

\* the bracket the bisection starts from
low0 == Float(1, 1000000)
high0 == Float(5000000, 1000000)

\* a midpoint that is the upper end of the bracket
UpperEnd(low, high) == [num |-> IntMulNat(high.num, NatOf(2)), den |-> NatMul(high.den, NatOf(2))]

\* 0.5 * (low + high), for low and high over one denominator
Midpoint(low, high) == [num |-> IntAdd(low.num, high.num), den |-> NatMul(low.den, NatOf(2))]

\* the same float over the denominator of the midpoint
OverMidpoint(x) == [num |-> IntMulNat(x.num, NatOf(2)), den |-> NatMul(x.den, NatOf(2))]

\* ---- the arguments the solver is called with ----

\* IVRequest: any floats and any integer number of days
IVSpots == {Float(100, 1)}
IVStrikes == {Zero, Float(50, 1), Float(100, 1)}
IVDays == {30}
IVRates == {Zero}
QuotedPrices == {Float(-5, 1), Zero, Float(5, 1), Float(500, 1)}

\* the volatilities whose closed-form price is given to the solver
KnownVols == {Float(2, 10), Float(29, 10)}

\* the option prices a call is made with: quoted ones, and the closed-form
\* prices of the same option at the known volatilities
OptionPrices(spot, strike, days_to_expiry, option_type, rate) ==
  QuotedPrices \cup
  {p \in {_black_scholes_price(spot, strike, YearsToExpiry(days_to_expiry), rate, v0,
                               option_type) : v0 \in KnownVols} : ~IsRaised(p)}

(***************************************************************************)
(* app/services/volatility.py: rank and percentile of an implied           *)
(* volatility in a historical sample                                       *)
(***************************************************************************)

\* sum(1 for x in history if test(x))
CountIf(history, test(_)) == Cardinality({i \in 1..Len(history) : test(history[i])})

iv_rank_strictly_below(iv, history) ==
  IF history = <<>> THEN Zero
  ELSE LET below(x) == FLt(x, iv)
           count == CountIf(history, below)
       IN  FDiv(FMul(Hundred, Float(count, 1)), Float(Len(history), 1))

iv_rank(iv, history) ==
  IF history = <<>> THEN Zero
  ELSE LET at_most(x) == FLe(x, iv)
           count == CountIf(history, at_most)
       IN  FDiv(FMul(Hundred, Float(count, 1)), Float(Len(history), 1))

iv_percentile(iv, history) ==
  IF history = <<>> THEN Zero
  ELSE LET lower(x) == FLt(x, iv)
           below == CountIf(history, lower)
       IN  FDiv(FMul(Hundred, Float(below, 1)), Float(Len(history), 1))

\* ---- the arguments the calls are drawn from ----

\* the longest historical sample
MaxHistory == 3

IVLevels == Hundredths({0, 20, 30})

IVHistories == SeqsUpTo(Hundredths({10, 20, 30}), MaxHistory)

(***************************************************************************)
(* app/services/oi.py: the put-call ratios                                 *)
(***************************************************************************)

calculate_pcr(put_oi, call_oi) ==
  IF FLe(call_oi, Zero) THEN Zero ELSE FDiv(put_oi, call_oi)

calculate_pcr_volume(put_volume, call_volume) ==
  IF FLe(call_volume, Zero) THEN Zero ELSE FDiv(put_volume, call_volume)

(***************************************************************************)
(* app/services/oi.py: oi_spike_detector.  numpy computes in IEEE doubles: *)
(* every operation returns the double nearest to the exact result, the one *)
(* with the even mantissa on a tie.  The series of the calls stay within   *)
(* the normal range of the doubles, so the exponent is not bounded here.   *)
(***************************************************************************)
\* F at the value of e, which is computed before F is entered
Eager(e, F(_)) == IF e = e THEN F(e) ELSE F(e)

\* 2^k for a natural k, thirty bits at a time
RECURSIVE NatPow2(_)
NatPow2(k) == IF k <= 30 THEN NatOf(2^k) ELSE NatMul(NatOf(2^30), NatPow2(k - 30))

\* 2^k <= p / q
Pow2AtMost(k, p, q) ==
  IF k >= 0 THEN NatCmp(NatMul(NatPow2(k), q), p) <= 0
  ELSE NatCmp(q, NatMul(NatPow2(-k), p)) <= 0

\* the greatest k in lo..hi-1 with 2^k <= p / q, given that lo is such a k
\* and hi is none: by bisection
RECURSIVE ExponentIn(_, _, _, _)
ExponentIn(lo, hi, p, q) ==
  IF hi - lo = 1 THEN lo
  ELSE IF Pow2AtMost((lo + hi) \div 2, p, q)
  THEN ExponentIn((lo + hi) \div 2, hi, p, q)
  ELSE ExponentIn(lo, (lo + hi) \div 2, p, q)

\* the binary exponent of p / q > 0: Base^d lies between 2^(13 d) and 2^(14 d)
Exponent(p, q) ==
  ExponentIn(IF Len(p) - Len(q) >= 1 THEN 13 * (Len(p) - Len(q) - 1)
             ELSE 14 * (Len(p) - Len(q) - 1),
             IF Len(p) - Len(q) >= -1 THEN 14 * (Len(p) - Len(q) + 1)
             ELSE 13 * (Len(p) - Len(q) + 1), p, q)

\* y <= p / q (the power 1) or y * y <= p / q (the power 2)
AtMost(y, power, p, q) ==
  NatCmp(NatMul(IF power = 2 THEN NatMul(y, y) ELSE y, q), p) <= 0

\* the greatest j in lo..hi-1 with AtMost(base + j * scale, power, p, q),
\* given that lo is such a j and hi is none: by bisection
RECURSIVE GreatestIn(_, _, _, _, _, _, _)
GreatestIn(lo, hi, base, scale, power, p, q) ==
  IF hi - lo = 1 THEN lo
  ELSE IF AtMost(NatAdd(base, NatMul(NatOf((lo + hi) \div 2), scale)), power, p, q)
  THEN GreatestIn((lo + hi) \div 2, hi, base, scale, power, p, q)
  ELSE GreatestIn(lo, (lo + hi) \div 2, base, scale, power, p, q)

\* the greatest natural y with AtMost(y, power, p, q), nine bits at a time,
\* given that base is the greatest multiple of 2^bits of them and less than
\* 2^9 further multiples follow it
RECURSIVE FloorFrom(_, _, _, _, _)
FloorFrom(base, bits, power, p, q) ==
  IF bits = 0 \/ ~AtMost(base, power, p, q) THEN base
  ELSE FloorFrom(NatAdd(base, NatMul(NatOf(GreatestIn(0, 2^9, base, NatPow2(bits - 9),
                                                      power, p, q)),
                                     NatPow2(bits - 9))),
                 bits - 9, power, p, q)

\* floor + 1/2 against y, for y = p / q or y * y = p / q: -1, 0, 1
HalfCmp(floor, power, p, q) ==
  IF power = 2
  THEN NatCmp(NatMul(NatMul(NatAdd(NatMul(<<2>>, floor), <<1>>),
                            NatAdd(NatMul(<<2>>, floor), <<1>>)), q), NatMul(<<4>>, p))
  ELSE NatCmp(NatMul(NatAdd(NatMul(<<2>>, floor), <<1>>), q), NatMul(<<2>>, p))

\* floor, or floor + 1 when y is nearer to it, or halfway and floor is odd
HalfEven(floor, half) ==
  IF half < 0 \/ (half = 0 /\ floor[1] % 2 = 1) THEN NatAdd(floor, <<1>>) ELSE floor

\* the integer nearest to y, for y = p / q or y * y = p / q (the power 1 or
\* 2) and 2^52 <= y < 2^53, the even one when y is halfway between two
Mantissa(power, p, q) ==
  Eager(FloorFrom(<<>>, 54, power, p, q), LAMBDA floor :
    HalfEven(floor, HalfCmp(floor, power, p, q)))

\* m * 2^e with the sign sg
Ldexp(sg, m, e) ==
  [num |-> [sg |-> sg, mag |-> IF e >= 0 THEN NatMul(m, NatPow2(e)) ELSE m],
   den |-> IF e >= 0 THEN <<1>> ELSE NatPow2(-e)]

\* the double nearest to x, or to its root (the power 1 or 2), for e the
\* binary exponent of the result
Nearest(x, power, e) ==
  Ldexp(x.num.sg,
        IF e <= 52 THEN Mantissa(power, NatMul(x.num.mag, NatPow2(power * (52 - e))), x.den)
        ELSE Mantissa(power, x.num.mag, NatMul(x.den, NatPow2(power * (e - 52)))),
        e - 52)

\* the binary exponent of the root of a number of binary exponent e
HalfExponent(e) == IF e >= 0 THEN e \div 2 ELSE -((1 - e) \div 2)

\* the double nearest to the real x
Float64(x) ==
  IF ~IsFinite(x) \/ x.num.sg = 0 THEN x
  ELSE Eager(Exponent(x.num.mag, x.den), LAMBDA e : Nearest(x, 1, e))

\* numpy.sqrt of a double x >= 0
NpSqrt(x) ==
  IF ~IsFinite(x) \/ x.num.sg = 0 THEN x
  ELSE Eager(HalfExponent(Exponent(x.num.mag, x.den)), LAMBDA e : Nearest(x, 2, e))

\* numpy.add.reduce of fewer than eight doubles, from element i on with the
\* sum acc of those before: one addition after the other
RECURSIVE NpSumFrom(_, _, _)
NpSumFrom(acc, xs, i) ==
  IF IsNaN(acc) \/ i > Len(xs) THEN acc
  ELSE NpSumFrom(Float64(FAdd(acc, xs[i])), xs, i + 1)

NpSum(xs) == NpSumFrom(Zero, xs, 1)

\* numpy.diff
NpDiff(xs) == [i \in 1..(Len(xs) - 1) |-> Float64(FSub(xs[i + 1], xs[i]))]

\* numpy.mean
NpMean(xs) == Eager(NpSum(xs), LAMBDA total : Float64(FDiv(total, Float(Len(xs), 1))))

\* the squared deviation of x from m
SquaredDeviation(x, m) == Eager(Float64(FSub(x, m)), LAMBDA d : Float64(FMul(d, d)))

\* numpy.std around the mean m: the root of the mean of the squared deviations
NpStdAround(xs, m) ==
  Eager([i \in DOMAIN xs |-> SquaredDeviation(xs[i], m)], LAMBDA squares :
    Eager(NpMean(squares), LAMBDA variance : NpSqrt(variance)))

NpStd(xs) == Eager(NpMean(xs), LAMBDA m : NpStdAround(xs, m))

\* oi_spike_detector on changes that number at least one
spike_of_changes(changes, mean, std) ==
  IF FEq(std, Zero) THEN Zero
  ELSE Eager(Float64(FSub(changes[Len(changes)], mean)), LAMBDA above :
         Float64(FDiv(above, std)))

\* oi_spike_detector from the changes on
spike_of(changes) ==
  Eager(NpMean(changes), LAMBDA mean :
    Eager(NpStdAround(changes, mean), LAMBDA std : spike_of_changes(changes, mean, std)))

oi_spike_detector(oi_series) ==
  IF Len(oi_series) < 2 THEN Zero
  ELSE Eager(NpDiff(oi_series), LAMBDA changes : spike_of(changes))

\* ---- the arguments the calls are drawn from ----

\* open interest and volume totals of the puts and of the calls; the route's
\* are 1500000, 1200000 (open interest) and 500000, 450000 (volume)
PutTotals ==
  {Float(k, 1) : k \in {0, 1, 250, 500000, 900000, 1200000, 1500000, 2400000}}

CallTotals ==
  {Float(k, 1) : k \in {0, 1, 250, 450000, 600000, 1200000, 3000000}}

\* the longest open-interest series
MaxPoints == 4

\* the series x0, x0 + h, x0 + 2h, ... of n points in tenths, as the doubles
\* of their decimals, with the jump added to its last point
OISeriesOf(x0, h, n, jump) ==
  [i \in 1..n |-> Float64(Float(x0 + h * (i - 1) + (IF i = n THEN jump ELSE 0), 10))]

\* series from 0.1 in steps of 0 or 0.4, with and without a jump of 1 at the
\* last point, and the constant series [1000, ..., 1000]
OISeries ==
  {OISeriesOf(1, h, n, jump) : h \in {0, 4}, n \in 0..MaxPoints, jump \in {0, 10}}
    \cup {OISeriesOf(10000, 0, n, 0) : n \in 0..MaxPoints}

(***************************************************************************)
(* app/api/routes.py: the strategy routes on the collection db.strategies. *)
(* The collection is the sequence of its documents in insertion order; a   *)
(* filter {"name": n} matches the documents named n, and update_one,       *)
(* find_one and delete_one act on the first of them.                       *)
(***************************************************************************)
HTTPException(status_code) == [raised |-> "HTTPException", status_code |-> status_code]

DEFAULT_STRATEGIES ==
  <<[name |-> "Mean Reversion Call", mode |-> "LIVE",
     conditions |-> <<[indicator |-> "pcr_oi", operator |-> "<", threshold |-> 70]>>,
     filters |-> <<>>,
     actions |-> <<[side |-> "BUY", quantity |-> 1, instrument |-> "ATM_CALL"]>>,
     exits |-> <<[type |-> "take_profit", value |-> 30], [type |-> "stop_loss", value |-> 15]>>,
     multi_leg |-> FALSE, is_default |-> TRUE],
    [name |-> "Momentum Put", mode |-> "LIVE",
     conditions |-> <<[indicator |-> "pcr_oi", operator |-> ">", threshold |-> 120]>>,
     filters |-> <<>>,
     actions |-> <<[side |-> "BUY", quantity |-> 1, instrument |-> "ATM_PUT"]>>,
     exits |-> <<[type |-> "take_profit", value |-> 25], [type |-> "stop_loss", value |-> 20]>>,
     multi_leg |-> FALSE, is_default |-> TRUE]>>

\* any(s["name"] == name for s in DEFAULT_STRATEGIES)
IsDefaultName(name) == \E k \in DOMAIN DEFAULT_STRATEGIES : DEFAULT_STRATEGIES[k].name = name

\* the index of the first document named name, 0 when there is none
FirstNamed(collection, name) ==
  IF \A k \in DOMAIN collection : collection[k].name # name THEN 0
  ELSE CHOOSE k \in DOMAIN collection :
         /\ collection[k].name = name
         /\ \A j \in 1..(k - 1) : collection[j].name # name

\* collection.update_one({"name": name}, {"$set": fields}, upsert)
update_one(collection, name, fields, upsert) ==
  With(FirstNamed(collection, name), LAMBDA k :
    IF k # 0 THEN [collection EXCEPT ![k] = fields @@ @]
    ELSE IF upsert THEN Append(collection, fields @@ [name |-> name])
    ELSE collection)

\* collection.delete_one({"name": name})
delete_one(collection, name) ==
  With(FirstNamed(collection, name), LAMBDA k :
    IF k = 0 THEN collection
    ELSE SubSeq(collection, 1, k - 1) \o SubSeq(collection, k + 1, Len(collection)))

\* the response of a strategy route and the collection it leaves
Stored(response, collection) == [response |-> response, collection |-> collection]

\* POST /strategy/save
post_strategy_save(req, collection) ==
  Stored([status |-> "saved"], update_one(collection, req.strategy.name, req.strategy, TRUE))

\* GET /strategies/{name}
get_strategy(name, collection) ==
  IF IsDefaultName(name)
  THEN [strategy |-> DEFAULT_STRATEGIES[CHOOSE k \in DOMAIN DEFAULT_STRATEGIES :
                                          DEFAULT_STRATEGIES[k].name = name]]
  ELSE With(FirstNamed(collection, name), LAMBDA k :
    IF k = 0 THEN HTTPException(404) ELSE [strategy |-> collection[k]])

\* DELETE /strategies/{name} without its guard on the default strategies
delete_stored_strategy(name, collection) ==
  IF FirstNamed(collection, name) = 0 THEN Stored(HTTPException(404), collection)
  ELSE Stored([status |-> "deleted"], delete_one(collection, name))

\* DELETE /strategies/{name}
delete_strategy(name, collection) ==
  IF IsDefaultName(name) THEN Stored(HTTPException(400), collection)
  ELSE IF FirstNamed(collection, name) = 0 THEN Stored(HTTPException(404), collection)
  ELSE Stored([status |-> "deleted"], delete_one(collection, name))

\* PUT /strategies/{name}
update_strategy_name(name, req, collection) ==
  IF IsDefaultName(name) THEN Stored(HTTPException(400), collection)
  ELSE IF FirstNamed(collection, name) = 0 THEN Stored(HTTPException(404), collection)
  ELSE Stored([status |-> "updated", old_name |-> name, new_name |-> req.new_name],
              update_one(collection, name, [name |-> req.new_name], FALSE))

\* ---- the requests the strategy routes are called with ----

\* the collection holds at most MaxDocs documents
MaxDocs == 2

StrategyNames == {"Mean Reversion Call", "pcr", "iron condor"}

SavedStrategies ==
  {[name |-> n, mode |-> "LIVE", conditions |-> conditions, filters |-> <<>>,
    actions |-> <<>>, exits |-> <<>>, multi_leg |-> FALSE] :
     n \in StrategyNames,
     conditions \in {<<>>, <<[indicator |-> "pcr_oi", operator |-> ">", threshold |-> 125]>>}}

\* the dict d without the key k
Without(d, k) == [j \in DOMAIN d \ {k} |-> d[j]]

(***************************************************************************)
(* app/main.py: the SignalManager.  active_connections, a dict in          *)
(* insertion order, is the sequence of its items (connection,              *)
(* subscribed_symbol).                                                     *)
(***************************************************************************)
\* the subscription of a connection that has not subscribed: Python's None
\* among the symbols, which are strings
NoSymbol == "None"

Item(connection, subscribed_symbol) ==
  [connection |-> connection, subscribed_symbol |-> subscribed_symbol]

\* the keys of the dict
Connections(items) == {items[k].connection : k \in DOMAIN items}

\* active_connections[websocket] = symbol
SetItem(items, websocket, symbol) ==
  IF websocket \in Connections(items)
  THEN [k \in DOMAIN items |->
          IF items[k].connection = websocket THEN Item(websocket, symbol) ELSE items[k]]
  ELSE Append(items, Item(websocket, symbol))

\* active_connections.get(websocket), NoSymbol for a missing key too
Subscription(items, websocket) ==
  IF websocket \in Connections(items)
  THEN items[CHOOSE k \in DOMAIN items : items[k].connection = websocket].subscribed_symbol
  ELSE NoSymbol

\* SignalManager.connect, after websocket.accept()
connect(items, websocket) == SetItem(items, websocket, NoSymbol)

\* SignalManager.disconnect
disconnect(items, websocket) ==
  SelectSeq(items, LAMBDA item : item.connection # websocket)

\* SignalManager.subscribe
subscribe(items, websocket, symbol) ==
  IF websocket \in Connections(items) THEN SetItem(items, websocket, symbol) ELSE items

\* a test that lets every connection pass
subscribed_to_any(subscribed_symbol, tick_symbol) == TRUE

\* the test of broadcast on an item of the listed connections
subscribed_to(subscribed_symbol, tick_symbol) ==
  subscribed_symbol = NoSymbol \/ subscribed_symbol = tick_symbol

\* A broadcast of SignalManager.broadcast: the items it listed, the index of
\* the item it sent to last, and for every send what it found: the symbol
\* listed for the connection, the connection's subscription and registration
\* at the moment of the send, and whether the send delivered or raised.
Broadcast(tick_symbol, items) ==
  [tick_symbol |-> tick_symbol, items |-> items, i |-> 0, sends |-> <<>>,
   running |-> TRUE]

\* no broadcast yet
NoBroadcast(tick_symbol) == [Broadcast(tick_symbol, <<>>) EXCEPT !.running = FALSE]

\* the index of the next item of the list that passes the test, 0 at its end
NextSend(b) ==
  IF \A k \in (b.i + 1)..Len(b.items) :
       ~subscribed_to(b.items[k].subscribed_symbol, b.tick_symbol)
  THEN 0
  ELSE CHOOSE k \in (b.i + 1)..Len(b.items) :
         /\ subscribed_to(b.items[k].subscribed_symbol, b.tick_symbol)
         /\ \A j \in (b.i + 1)..(k - 1) :
              ~subscribed_to(b.items[j].subscribed_symbol, b.tick_symbol)

\* what the send to item k found
Send(b, k, items, delivered) ==
  [connection |-> b.items[k].connection,
   subscribed_symbol |-> b.items[k].subscribed_symbol,
   subscription |-> Subscription(items, b.items[k].connection),
   registered |-> b.items[k].connection \in Connections(items),
   delivered |-> delivered]

\* a broadcast without the try of its send: the exception of send_json ends it
send_json_unguarded(b, k, items, delivered) ==
  [b EXCEPT !.i = k, !.sends = Append(@, Send(b, k, items, delivered)),
            !.running = delivered]

\* the broadcast after await connection.send_json(message) on item k: an
\* exception is caught and the loop goes on
send_json(b, k, items, delivered) ==
  [b EXCEPT !.i = k, !.sends = Append(@, Send(b, k, items, delivered))]

\* the sockets of the clients and the symbols of the tick streams
WebSockets == {"ws1", "ws2"}
StreamSymbols == {"NIFTY", "BANKNIFTY"}

(***************************************************************************)
(* app/api/routes.py: GET /chain/live.  The process reads USE_UPSTOX_LIVE  *)
(* once; the instruments configuration and the answer of the Upstox        *)
(* option-chain API are what the call finds.  An entry of a chain is kept  *)
(* as its strike and option type.                                          *)
(***************************************************************************)
\* _to_num on the strike of a raw entry: the texts Upstox sends and their floats
StrikeTexts == {"18000", "18,050", "", "N/A"}

_to_num(x) ==
  CASE x = "18000" -> Float(18000, 1)
    [] x = "18,050" -> Float(18050, 1)
    [] OTHER -> None

\* the entries the loop over the raw chain appends: one per quoted side of
\* every raw entry whose strike is a number
RECURSIVE upstox_entries(_)
upstox_entries(chains) ==
  IF chains = <<>> THEN <<>>
  ELSE (IF _to_num(Head(chains).strike_price) = None THEN <<>>
        ELSE [k \in 1..Len(Head(chains).sides) |->
                [strike |-> _to_num(Head(chains).strike_price),
                 option_type |-> IF Head(chains).sides[k] = "CE" THEN "CALL" ELSE "PUT"]])
       \o upstox_entries(Tail(chains))

\* find_instrument_by_symbol(symbol): the index in the configuration, 0 for None
find_instrument_by_symbol(instruments, symbol) ==
  IF \A k \in DOMAIN instruments : instruments[k].symbol # symbol THEN 0
  ELSE CHOOSE k \in DOMAIN instruments :
         /\ instruments[k].symbol = symbol
         /\ \A j \in 1..(k - 1) : instruments[j].symbol # symbol

\* build_mock_price_map().get(symbol, 20000.0)
mock_base_price(instruments, symbol) ==
  With(find_instrument_by_symbol(instruments, symbol), LAMBDA k :
    IF k = 0 THEN 20000 ELSE 20000 + (k - 1) * 5000)

OptionChainResponse(underlying, entries) == [underlying |-> underlying, entries |-> entries]

\* the synthetic chain: a call and a put at the eleven strikes around the
\* base price, which is a multiple of 50
synthetic_chain(instruments, symbol) ==
  OptionChainResponse(symbol,
    [n \in 1..22 |->
       [strike |-> Float(mock_base_price(instruments, symbol) + (((n - 1) \div 2) - 5) * 50, 1),
        option_type |-> IF n % 2 = 1 THEN "CALL" ELSE "PUT"]])

\* the direct attempt: the exception it raises, or its response
upstox_chain(instruments, symbol, upstox) ==
  With(find_instrument_by_symbol(instruments, symbol), LAMBDA k :
    IF k = 0 \/ (k # 0 /\ instruments[k].instrumentKey = "") THEN Raise("ValueError")
    ELSE IF upstox.status # "200" THEN Raise(upstox.status)
    ELSE IF upstox_entries(upstox.chains) = <<>> THEN Raise("RuntimeError")
    ELSE OptionChainResponse(symbol, upstox_entries(upstox.chains)))

\* GET /chain/live
get_live_chain(USE_UPSTOX_LIVE, instruments, symbol, upstox) ==
  IF USE_UPSTOX_LIVE
  THEN With(upstox_chain(instruments, symbol, upstox), LAMBDA attempt :
         IF IsRaised(attempt) THEN HTTPException(502) ELSE attempt)
  ELSE synthetic_chain(instruments, symbol)

\* ---- what the calls of GET /chain/live find ----

\* the longest raw chain of an Upstox answer
MaxChain == 2

RawEntries ==
  {[strike_price |-> s, sides |-> sides] :
     s \in {"18000", "N/A"}, sides \in {<<>>, <<"CE", "PE">>}}
  \cup {[strike_price |-> "18,050", sides |-> <<"PE">>],
        [strike_price |-> "", sides |-> <<"CE">>]}

UpstoxAnswers ==
  {[status |-> status, chains |-> chains] :
     status \in {"200", "HTTPStatusError", "ConnectTimeout"},
     chains \in SeqsUpTo(RawEntries, MaxChain)}

InstrumentConfigs ==
  {<<[symbol |-> "NIFTY", instrumentKey |-> "NSE_INDEX|Nifty 50"],
     [symbol |-> "BANKNIFTY", instrumentKey |-> ""]>>}

ChainSymbols == {"NIFTY", "BANKNIFTY", "SENSEX"}

\* the global generator of numpy.random as the interpreter starts: seeded
\* from the entropy of the operating system
FreshGenerator == [seeded |-> FALSE, seed |-> 0, position |-> 0]

Init ==
  /\ pc = "idle" /\ args = <<>> /\ ret = <<>> /\ locals = <<>>
  /\ np_random = FreshGenerator
  /\ strategies = <<>> /\ saved = EmptyDict
  /\ active_connections = <<>>
  /\ sockets = [websocket \in WebSockets |-> "new"]
  /\ broadcasts = [symbol \in StreamSymbols |-> NoBroadcast(symbol)]

\* POST /strategy/run-live, for any context and clock reading
RunLiveStrategy ==
  /\ pc = "idle"
  /\ UNCHANGED <<locals, np_random, shared>>
  /\ \E nc \in 0..MaxRules :
       \E nf \in 0..(MaxRules - nc) :
         \E na \in 0..(MaxRules - nc - nf) :
           \E conditions \in SeqsOfLen(ConditionSet, nc),
              filters \in SeqsOfLen(FilterSet, nf),
              actions \in SeqsOfLen(ActionSet, na),
              context \in Contexts, now \in Clock :
             LET req == [strategy |-> StrategyDefinition(conditions, filters, actions),
                         symbol |-> "NIFTY"]
             IN  /\ pc' = "run_live_strategy"
                 /\ args' = [req |-> req, context |-> context, now |-> now]
                 /\ ret' = run_live_strategy(req, context, now)

\* the response is sent; nothing of the call is kept
Return ==
  /\ pc \notin {"idle", "implied_volatility.loop"}
  /\ pc' = "idle"
  /\ args' = <<>>
  /\ ret' = <<>>
  /\ locals' = <<>>
  /\ UNCHANGED <<np_random, shared>>

NextStrategy == RunLiveStrategy \/ Return

SpecStrategy == Init /\ [][NextStrategy]_vars

\* POST /consensus
ComputeConsensus ==
  /\ pc = "idle"
  /\ UNCHANGED <<locals, np_random, shared>>
  /\ \E probability \in ProbabilityResults, volatility \in IVResponses,
        oi \in OIResponses, market \in MarketResponses :
       /\ pc' = "compute_consensus"
       /\ args' = [probability |-> probability, volatility |-> volatility,
                   oi |-> oi, market |-> market]
       /\ ret' = compute_consensus(probability, volatility, oi, market)

NextConsensus == ComputeConsensus \/ Return

SpecConsensus == Init /\ [][NextConsensus]_vars

\* POST /strategy/backtest, for any caller-supplied price series
RunBacktest ==
  /\ pc = "idle"
  /\ UNCHANGED <<locals, np_random, shared>>
  /\ \E req \in BacktestRequests, prices \in PriceLists :
       /\ pc' = "run_backtest"
       /\ args' = [req |-> req, prices |-> prices]
       /\ ret' = run_backtest(req, prices)

\* compute_stats on an equity curve of its own
ComputeStats ==
  /\ pc = "idle"
  /\ UNCHANGED <<locals, np_random, shared>>
  /\ \E equity_curve \in EquityCurves :
       /\ pc' = "compute_stats"
       /\ args' = [equity_curve |-> equity_curve]
       /\ ret' = compute_stats(equity_curve)

NextBacktest == RunBacktest \/ ComputeStats \/ Return

SpecBacktest == Init /\ [][NextBacktest]_vars

\* iv_rank of a volatility in a historical sample
IvRank ==
  /\ pc = "idle"
  /\ UNCHANGED <<locals, np_random, shared>>
  /\ \E iv \in IVLevels, history \in IVHistories :
       /\ pc' = "iv_rank"
       /\ args' = [iv |-> iv, history |-> history]
       /\ ret' = iv_rank(iv, history)

\* iv_percentile of a volatility in a historical sample
IvPercentile ==
  /\ pc = "idle"
  /\ UNCHANGED <<locals, np_random, shared>>
  /\ \E iv \in IVLevels, history \in IVHistories :
       /\ pc' = "iv_percentile"
       /\ args' = [iv |-> iv, history |-> history]
       /\ ret' = iv_percentile(iv, history)

NextVolatility == IvRank \/ IvPercentile \/ Return

SpecVolatility == Init /\ [][NextVolatility]_vars

\* calculate_pcr on the open interest of the puts and of the calls
CalculatePcr ==
  /\ pc = "idle"
  /\ UNCHANGED <<locals, np_random, shared>>
  /\ \E put_oi \in PutTotals, call_oi \in CallTotals :
       /\ pc' = "calculate_pcr"
       /\ args' = [put |-> put_oi, call |-> call_oi]
       /\ ret' = calculate_pcr(put_oi, call_oi)

\* calculate_pcr_volume on the volume of the puts and of the calls
CalculatePcrVolume ==
  /\ pc = "idle"
  /\ UNCHANGED <<locals, np_random, shared>>
  /\ \E put_volume \in PutTotals, call_volume \in CallTotals :
       /\ pc' = "calculate_pcr_volume"
       /\ args' = [put |-> put_volume, call |-> call_volume]
       /\ ret' = calculate_pcr_volume(put_volume, call_volume)

\* oi_spike_detector on an open-interest series
OiSpikeDetector ==
  /\ pc = "idle"
  /\ UNCHANGED <<np_random, shared>>
  /\ \E oi_series \in OISeries :
       /\ pc' = "oi_spike_detector"
       /\ args' = [oi_series |-> oi_series]
       /\ locals' = IF Len(oi_series) < 2 THEN <<>> ELSE [changes |-> NpDiff(oi_series)]
       /\ ret' = IF Len(oi_series) < 2 THEN Zero ELSE spike_of(locals'.changes)

NextOI == CalculatePcr \/ CalculatePcrVolume \/ OiSpikeDetector \/ Return

SpecOI == Init /\ [][NextOI]_vars

\* POST /greeks
ComputeGreeks ==
  /\ pc = "idle"
  /\ UNCHANGED <<locals, np_random, shared>>
  /\ \E spot \in GreeksSpots, strike \in GreeksStrikes, days_to_expiry \in GreeksDays,
        iv \in GreeksIVs, option_type \in OptionType, rate \in GreeksRates :
       /\ pc' = "compute_greeks"
       /\ args' = [spot |-> spot, strike |-> strike, days_to_expiry |-> days_to_expiry,
                   iv |-> iv, option_type |-> option_type, rate |-> rate]
       /\ ret' = compute_greeks(spot, strike, days_to_expiry, iv, option_type, rate)

NextGreeks == ComputeGreeks \/ Return

SpecGreeks == Init /\ [][NextGreeks]_vars

\* POST /iv: implied_volatility up to its loop (lines 36 to 40)
ImpliedVolatility ==
  /\ pc = "idle"
  /\ UNCHANGED <<np_random, shared>>
  /\ \E spot \in IVSpots, strike \in IVStrikes, days_to_expiry \in IVDays,
        option_type \in OptionType, rate \in IVRates :
       \E option_price \in OptionPrices(spot, strike, days_to_expiry, option_type, rate) :
         LET t == YearsToExpiry(days_to_expiry)
         IN  /\ args' = [spot |-> spot, strike |-> strike, option_price |-> option_price,
                         days_to_expiry |-> days_to_expiry, option_type |-> option_type,
                         rate |-> rate, tol |-> tol, max_iter |-> max_iter]
             /\ IF FLe(option_price, Zero) \/ FLe(t, Zero)
                THEN /\ pc' = "implied_volatility"
                     /\ ret' = Zero
                     /\ locals' = [t |-> t]
                ELSE /\ pc' = "implied_volatility.loop"
                     /\ ret' = <<>>
                     /\ locals' = [t |-> t, low |-> low0, high |-> high0, i |-> 0]

\* one iteration of the loop of implied_volatility (lines 41 to 49)
Bisect ==
  /\ pc = "implied_volatility.loop"
  /\ locals.i < args.max_iter
  /\ UNCHANGED <<args, np_random, shared>>
  /\ LET mid == Midpoint(locals.low, locals.high)
         price == _black_scholes_price(args.spot, args.strike, locals.t, args.rate, mid,
                                       args.option_type)
     IN  IF IsRaised(price)
         THEN /\ pc' = "implied_volatility"
              /\ ret' = price
              /\ locals' = [locals EXCEPT !.i = @ + 1]
         ELSE IF FLt(FAbs(FSub(price, args.option_price)), args.tol)
         THEN /\ pc' = "implied_volatility"
              /\ ret' = mid
              /\ locals' = [locals EXCEPT !.i = @ + 1]
         ELSE /\ pc' = pc
              /\ ret' = ret
              /\ locals' = IF FGt(price, args.option_price)
                           THEN [locals EXCEPT !.low = OverMidpoint(@), !.high = mid,
                                               !.i = @ + 1]
                           ELSE [locals EXCEPT !.low = mid, !.high = OverMidpoint(@),
                                               !.i = @ + 1]

\* the loop has run max_iter times (line 50)
BisectionExhausted ==
  /\ pc = "implied_volatility.loop"
  /\ locals.i = args.max_iter
  /\ pc' = "implied_volatility"
  /\ ret' = Midpoint(locals.low, locals.high)
  /\ UNCHANGED <<args, locals, np_random, shared>>

NextSolver == ImpliedVolatility \/ Bisect \/ BisectionExhausted \/ Return

SpecSolver == Init /\ [][NextSolver]_vars

\* a call of one model of app/services/probability.py on the global generator
Call(model, q, outcome) ==
  /\ pc = "idle"
  /\ pc' = model
  /\ args' = q
  /\ ret' = outcome.value
  /\ np_random' = outcome.generator
  /\ UNCHANGED <<locals, shared>>

BlackScholesD2Probability ==
  \E q \in Snapshots, option_type \in OptionType :
    Call("black_scholes_d2_probability",
         [spot |-> q.spot, strike |-> q.strike, days_to_expiry |-> q.days_to_expiry,
          iv |-> q.iv, option_type |-> option_type],
         Outcome(black_scholes_d2_probability(q.spot, q.strike, q.days_to_expiry, q.iv,
                                              option_type), np_random))

LognormalItmProbability ==
  \E q \in Snapshots :
    Call("lognormal_itm_probability", q,
         Outcome(lognormal_itm_probability(q.spot, q.strike, q.days_to_expiry, q.iv),
                 np_random))

BinomialItmProbability ==
  \E q \in Snapshots :
    Call("binomial_itm_probability", q,
         Outcome(binomial_itm_probability(q.spot, q.strike, q.days_to_expiry, q.iv, TreeSteps),
                 np_random))

MonteCarloItmProbability ==
  \E q \in Snapshots, z \in Samples(np_random, Paths) :
    Call("monte_carlo_itm_probability", q,
         monte_carlo_itm_probability(q.spot, q.strike, q.days_to_expiry, q.iv, Paths,
                                     np_random, z))

ExpectedMove ==
  \E q \in Snapshots :
    Call("expected_move", q,
         Outcome(expected_move(q.spot, q.days_to_expiry, q.iv), np_random))

GeometricBrownianMotionProbability ==
  \E q \in Snapshots :
    Call("geometric_brownian_motion_probability", q,
         Outcome(geometric_brownian_motion_probability(q.spot, q.strike, q.days_to_expiry,
                                                       q.iv, Zero), np_random))

TrinomialTreeProbability ==
  \E q \in Snapshots :
    Call("trinomial_tree_probability", q,
         Outcome(trinomial_tree_probability(q.spot, q.strike, q.days_to_expiry, q.iv,
                                            TreeSteps), np_random))

HestonStochasticVolatilityProbability ==
  \E q \in Snapshots :
    Call("heston_stochastic_volatility_probability", q,
         heston_stochastic_volatility_probability(q.spot, q.strike, q.days_to_expiry, q.iv,
                                                  Paths, np_random))

SabrProbability ==
  \E q \in Snapshots :
    Call("sabr_probability", q,
         Outcome(sabr_probability(q.spot, q.strike, q.days_to_expiry, q.iv), np_random))

JumpDiffusionProbability ==
  \E q \in Snapshots :
    Call("jump_diffusion_probability", q,
         jump_diffusion_probability(q.spot, q.strike, q.days_to_expiry, q.iv, Paths,
                                    np_random))

GarchProbability ==
  \E q \in Snapshots :
    Call("garch_probability", q,
         garch_probability(q.spot, q.strike, q.days_to_expiry, q.iv, Paths, np_random))

RiskNeutralDensityProbability ==
  \E q \in Snapshots :
    Call("risk_neutral_density_probability", q,
         Outcome(risk_neutral_density_probability(q.spot, q.strike, q.days_to_expiry, q.iv),
                 np_random))

MachineLearningProbability ==
  \E q \in Snapshots :
    Call("machine_learning_probability", q,
         Outcome(machine_learning_probability(q.spot, q.strike, q.days_to_expiry, q.iv, <<>>),
                 np_random))

NextProbability ==
  \/ BlackScholesD2Probability \/ LognormalItmProbability \/ BinomialItmProbability
  \/ MonteCarloItmProbability \/ ExpectedMove \/ GeometricBrownianMotionProbability
  \/ TrinomialTreeProbability \/ HestonStochasticVolatilityProbability \/ SabrProbability
  \/ JumpDiffusionProbability \/ GarchProbability \/ RiskNeutralDensityProbability
  \/ MachineLearningProbability \/ Return

SpecProbability == Init /\ [][NextProbability]_vars

(***************************************************************************)
(* app/api/routes.py: the two probability routes                           *)
(***************************************************************************)
\* POST /probability
PostProbability ==
  \E q \in Snapshots, option_type \in OptionType :
    LET req == [spot |-> q.spot, strike |-> q.strike, days_to_expiry |-> q.days_to_expiry,
                iv |-> q.iv, option_type |-> option_type]
    IN  \E z \in Samples(np_random, Paths) :
          Call("post_probability", req, post_probability(req, np_random, z))

\* POST /probability/heatmap: the row of one strike of the chain
PostProbabilityHeatmap ==
  \E q \in Snapshots :
    \E mc \in MonteCarloOutcomes(q.spot, q.strike, q.days_to_expiry,
                                  iv_for_strike(q.strike, q.iv), np_random) :
      Call("post_probability_heatmap", q,
           HeatmapRowFromMonteCarlo(q.spot, q.strike, q.days_to_expiry,
                                    iv_for_strike(q.strike, q.iv), mc))

NextRoutes == PostProbability \/ PostProbabilityHeatmap \/ Return

SpecRoutes == Init /\ [][NextRoutes]_vars

(***************************************************************************)
(* The strategy routes.  saved is what the clients were told: it maps a    *)
(* name to the strategy last saved under it, until a delete of the name or *)
(* a rename away from it is answered with success; a rename carries the    *)
(* strategy to its new name unless that name is saved already.             *)
(***************************************************************************)
Renamed(names, name, new_name) ==
  IF name = new_name \/ name \notin DOMAIN names THEN names
  ELSE IF new_name \in DOMAIN names THEN Without(names, name)
  ELSE (new_name :> [names[name] EXCEPT !.name = new_name]) @@ Without(names, name)

StoreCall(route, request, outcome, names) ==
  /\ pc = "idle"
  /\ pc' = route
  /\ args' = request
  /\ ret' = outcome.response
  /\ strategies' = outcome.collection
  /\ saved' = names
  /\ UNCHANGED <<locals, np_random, active_connections, sockets, broadcasts>>

PostStrategySave ==
  \E strategy \in SavedStrategies :
    /\ FirstNamed(strategies, strategy.name) # 0 \/ Len(strategies) < MaxDocs
    /\ StoreCall("post_strategy_save", [req |-> [strategy |-> strategy]],
                 post_strategy_save([strategy |-> strategy], strategies),
                 (strategy.name :> strategy) @@ saved)

GetStrategy ==
  \E name \in StrategyNames :
    StoreCall("get_strategy", [name |-> name],
              Stored(get_strategy(name, strategies), strategies), saved)

DeleteStrategy ==
  \E name \in StrategyNames :
    LET outcome == delete_strategy(name, strategies)
    IN  StoreCall("delete_strategy", [name |-> name], outcome,
                  IF IsRaised(outcome.response) THEN saved ELSE Without(saved, name))

UpdateStrategyName ==
  \E name \in StrategyNames, new_name \in StrategyNames :
    LET outcome == update_strategy_name(name, [new_name |-> new_name], strategies)
    IN  StoreCall("update_strategy_name", [name |-> name, req |-> [new_name |-> new_name]],
                  outcome,
                  IF IsRaised(outcome.response) THEN saved
                  ELSE Renamed(saved, name, new_name))

NextStore ==
  PostStrategySave \/ GetStrategy \/ DeleteStrategy \/ UpdateStrategyName \/ Return

SpecStore == Init /\ [][NextStore]_vars

(***************************************************************************)
(* The /ws/signals handlers, one per WebSocket, and the tick streams of    *)
(* app/websocket/live_engine.py, one task per symbol.  The tasks share one *)
(* event loop: a task runs until it awaits, so a step of a broadcast is    *)
(* what it does from one await of send_json to the next.                   *)
(***************************************************************************)
\* websocket_signals: await signal_manager.connect(websocket)
Connect ==
  \E websocket \in WebSockets :
    /\ sockets[websocket] = "new"
    /\ sockets' = [sockets EXCEPT ![websocket] = "open"]
    /\ active_connections' = connect(active_connections, websocket)
    /\ UNCHANGED <<pc, args, ret, locals, np_random, strategies, saved, broadcasts>>

\* websocket_signals: a {"type": "subscribe", "symbol": symbol} message
Subscribe ==
  \E websocket \in WebSockets, symbol \in StreamSymbols :
    /\ sockets[websocket] = "open"
    /\ active_connections' = subscribe(active_connections, websocket, symbol)
    /\ UNCHANGED <<pc, args, ret, locals, np_random, strategies, saved, sockets, broadcasts>>

\* the client goes away
Close ==
  \E websocket \in WebSockets :
    /\ sockets[websocket] = "open"
    /\ sockets' = [sockets EXCEPT ![websocket] = "closed"]
    /\ UNCHANGED <<pc, args, ret, locals, np_random, strategies, saved,
                   active_connections, broadcasts>>

\* websocket_signals: receive_text raises WebSocketDisconnect
Disconnect ==
  \E websocket \in WebSockets :
    /\ sockets[websocket] = "closed"
    /\ sockets' = [sockets EXCEPT ![websocket] = "done"]
    /\ active_connections' = disconnect(active_connections, websocket)
    /\ UNCHANGED <<pc, args, ret, locals, np_random, strategies, saved, broadcasts>>

\* broadcast b of the stream symbol runs to its next send, which delivers or
\* raises, or to its end
BroadcastStep(symbol, b) ==
  LET k == NextSend(b)
  IN  /\ UNCHANGED <<pc, args, ret, locals, np_random, strategies, saved>>
      /\ IF k = 0
         THEN /\ broadcasts' = [broadcasts EXCEPT ![symbol] = [b EXCEPT !.running = FALSE]]
              /\ UNCHANGED <<active_connections, sockets>>
         ELSE \E delivered \in (IF sockets[b.items[k].connection] = "open"
                                THEN {TRUE, FALSE} ELSE {FALSE}) :
                /\ broadcasts' = [broadcasts EXCEPT ![symbol] =
                                    send_json(b, k, active_connections, delivered)]
                /\ active_connections' =
                     IF delivered THEN active_connections
                     ELSE disconnect(active_connections, b.items[k].connection)
                /\ sockets' =
                     IF delivered \/ sockets[b.items[k].connection] # "open" THEN sockets
                     ELSE [sockets EXCEPT ![b.items[k].connection] = "closed"]

\* mock_upstox_tick_stream: on_tick(tick) calls signal_manager.broadcast
Tick ==
  \E symbol \in StreamSymbols :
    /\ ~broadcasts[symbol].running
    /\ BroadcastStep(symbol, Broadcast(symbol, active_connections))

\* a broadcast resumes after a send
Resume ==
  \E symbol \in StreamSymbols :
    /\ broadcasts[symbol].running
    /\ BroadcastStep(symbol, broadcasts[symbol])

NextSignals == Connect \/ Subscribe \/ Close \/ Disconnect \/ Tick \/ Resume

SpecSignals == Init /\ [][NextSignals]_vars

(***************************************************************************)
(* GET /chain/live                                                         *)
(***************************************************************************)
\* GET /chain/live, in a process in live mode or not
GetLiveChain ==
  /\ pc = "idle"
  /\ UNCHANGED <<locals, np_random, shared>>
  /\ \E USE_UPSTOX_LIVE \in BOOLEAN, instruments \in InstrumentConfigs,
        symbol \in ChainSymbols, upstox \in UpstoxAnswers :
       /\ pc' = "get_live_chain"
       /\ args' = [USE_UPSTOX_LIVE |-> USE_UPSTOX_LIVE, instruments |-> instruments,
                   symbol |-> symbol, upstox |-> upstox]
       /\ ret' = get_live_chain(USE_UPSTOX_LIVE, instruments, symbol, upstox)

NextChain == GetLiveChain \/ Return

SpecChain == Init /\ [][NextChain]_vars

Next == NextStrategy \/ NextConsensus \/ NextBacktest \/ NextVolatility
          \/ NextOI \/ NextGreeks \/ NextSolver \/ NextProbability \/ NextRoutes
          \/ NextStore \/ NextSignals \/ NextChain

Spec == Init /\ [][Next]_vars

(***************************************************************************)
(* Strategy decision engine: C1, C2                                        *)
(***************************************************************************)

\* a condition holds: its comparison, one of the six, is true of the
\* context's value of the indicator (0.0 when the context has none)
ConditionHolds(c, context) ==
  LET value == IF c.indicator \in DOMAIN context THEN context[c.indicator] ELSE 0
  IN  \/ c.operator = ">" /\ value > c.threshold
      \/ c.operator = "<" /\ value < c.threshold
      \/ c.operator = ">=" /\ value >= c.threshold
      \/ c.operator = "<=" /\ value <= c.threshold
      \/ c.operator = "==" /\ value = c.threshold
      \/ c.operator = "!=" /\ value # c.threshold

\* a filter passes: the minimum volume is met, the opening session is not
\* over (after 10:59 UTC); a filter of any other name passes
FilterPasses(f, context, now) ==
  /\ f.name = "min_volume" =>
       (IF "volume" \in DOMAIN context THEN context["volume"] ELSE 0)
         >= (IF "value" \in DOMAIN f.params THEN f.params["value"] ELSE 0)
  /\ f.name = "session" =>
       ~("value" \in DOMAIN f.params /\ f.params["value"] = "opening" /\ now.hour > 10)

PcrBelow70 == [indicator |-> "pcr_oi", operator |-> "<", threshold |-> 70]

\* C1: run_live_strategy reports executed = true exactly when every condition
\* of the strategy holds of the context and every filter passes; otherwise, a
\* condition with an unrecognised operator included, the outcome is SKIP
\* (executed = false).  The condition pcr_oi < 0.7 against pcr_oi = 1.25 skips.
C1_ExecutedIffAllConditionsAndFilters ==
  pc = "run_live_strategy" =>
    LET strat == args.req.strategy
    IN  /\ ret.executed \in BOOLEAN
        /\ ret.executed <=>
             /\ \A i \in 1..Len(strat.conditions) :
                  ConditionHolds(strat.conditions[i], args.context)
             /\ \A j \in 1..Len(strat.filters) :
                  FilterPasses(strat.filters[j], args.context, args.now)
        /\ (\E i \in 1..Len(strat.conditions) :
              strat.conditions[i].operator \notin {">", "<", ">=", "<=", "==", "!="})
             => ~ret.executed
        /\ (strat.conditions = <<PcrBelow70>> /\ args.context["pcr_oi"] = 125)
             => ~ret.executed

\* the example of C1: the only condition is pcr_oi < 0.7, the context has
\* pcr_oi = 1.25 and nothing else stops the strategy; the call skips
C1_Witness ==
  /\ pc = "run_live_strategy"
  /\ args.req.strategy.conditions = <<PcrBelow70>>
  /\ args.req.strategy.filters = <<>>
  /\ Len(args.req.strategy.actions) = 2
  /\ args.context["pcr_oi"] = 125
  /\ ~ret.executed

\* C2: on EXECUTE the call returns one trade per action, in action order, each
\* with the action's instrument and quantity, the context's price (0.0 when
\* the context has none) and pnl = 0; on SKIP the trade list is empty.
C2_OneTradePerActionOrNone ==
  pc = "run_live_strategy" =>
    LET actions == args.req.strategy.actions
        price == IF "price" \in DOMAIN args.context THEN args.context["price"] ELSE 0
    IN  IF ret.executed
        THEN /\ Len(ret.trades) = Len(actions)
             /\ \A i \in 1..Len(actions) :
                  /\ ret.trades[i].symbol = actions[i].instrument
                  /\ ret.trades[i].quantity = actions[i].quantity
                  /\ ret.trades[i].price = price
                  /\ ret.trades[i].pnl = 0
        ELSE ret.trades = <<>>

\* an executed strategy with two different actions and a priced context
C2_Witness ==
  /\ pc = "run_live_strategy"
  /\ ret.executed
  /\ Len(args.req.strategy.actions) = 2
  /\ args.req.strategy.actions[1] # args.req.strategy.actions[2]
  /\ "price" \in DOMAIN args.context
  /\ Len(ret.trades) = 2

(***************************************************************************)
(* Consensus engine: C3, C4, C5                                            *)
(***************************************************************************)

Returned == pc = "compute_consensus" /\ "confidence_score" \in DOMAIN ret

InRange(x) == FLe(Zero, x) /\ FLe(x, Hundred)

\* the weighted sum 0.35 p + 0.25 v + 0.15 o + 0.25 m of the reported sub-scores
WeightedSum(d) ==
  FDiv(FAdd(FAdd(FMul(Float(35, 1), d.probability_score),
                 FMul(Float(25, 1), d.volatility_score)),
            FAdd(FMul(Float(15, 1), d.oi_score),
                 FMul(Float(25, 1), d.market_score))),
       Hundred)

Clamp(x) == IF FLt(x, Zero) THEN Zero ELSE IF FGt(x, Hundred) THEN Hundred ELSE x

\* C3: the confidence_score compute_consensus returns lies in [0, 100], also
\* when sub-scores are outside 0..100.
C3_ConfidenceInRange ==
  Returned => InRange(ret.confidence_score)

\* every sub-score is out of range and the weighted sum is above 100
C3_Witness ==
  /\ Returned
  /\ ~InRange(ret.details.probability_score)
  /\ ~InRange(ret.details.volatility_score)
  /\ ~InRange(ret.details.oi_score)
  /\ ~InRange(ret.details.market_score)
  /\ FGt(WeightedSum(ret.details), Hundred)
  /\ FEq(ret.confidence_score, Hundred)

\* C4: the confidence is the weighted sum of the four sub-scores reported in
\* details, with weights 0.35, 0.25, 0.15, 0.25, clamped to [0, 100].
C4_ConfidenceIsClampedWeightedSum ==
  Returned => FEq(ret.confidence_score, Clamp(WeightedSum(ret.details)))

\* four different sub-scores whose weighted sum is not clamped
C4_Witness ==
  /\ Returned
  /\ LET d == ret.details
     IN  /\ ~FEq(d.probability_score, d.volatility_score)
         /\ ~FEq(d.probability_score, d.oi_score)
         /\ ~FEq(d.probability_score, d.market_score)
         /\ ~FEq(d.volatility_score, d.oi_score)
         /\ ~FEq(d.volatility_score, d.market_score)
         /\ ~FEq(d.oi_score, d.market_score)
         /\ FGt(WeightedSum(d), Zero)
         /\ FLt(WeightedSum(d), Hundred)

\* the volatility score as C5 states it: the HV/IV component is included
\* exactly when IV and HV are present and IV > 0
StatedVolScore(volatility) ==
  LET c == (IF volatility.iv # None /\ volatility.hv # None /\ FGt(volatility.iv, Zero)
            THEN <<FMul(PyMin(Float(2, 1), FDiv(volatility.hv, volatility.iv)), Fifty)>>
            ELSE <<>>)
           \o (IF volatility.iv_rank # None
               THEN <<FSub(Hundred, FAbs(FSub(volatility.iv_rank, Fifty)))>>
               ELSE <<>>)
           \o (IF volatility.iv_percentile # None
               THEN <<FSub(Hundred, FAbs(FSub(volatility.iv_percentile, Fifty)))>>
               ELSE <<>>)
  IN  IF c = <<>> THEN Fifty ELSE FDiv(FSum(c), Float(Len(c), 1))

\* C5: the volatility score is the average of the available components, the
\* HV/IV component being included exactly when IV and HV are present and
\* IV > 0 (with value 0 when HV = 0; skipped without an error when IV = 0);
\* with no component the score is 50.
C5_VolScoreGuardedOnIV ==
  pc = "compute_consensus" =>
    /\ "confidence_score" \in DOMAIN ret
    /\ FEq(ret.details.volatility_score, StatedVolScore(args.volatility))

(***************************************************************************)
(* Backtest engine: C6, C7, C8, C9, C10                                    *)
(***************************************************************************)

IsBuy(a) == a.side \in {"buy", "BUY"}
IsSell(a) == a.side \in {"sell", "SELL"}

\* the samples run_backtest trades on: ceil(n / 10) of a series of length n
SampleCount(n) == (n + 9) \div 10

\* the market price of sample s (0, 1, ...): the price at index 10 s
SamplePrice(prices, s) == prices[10 * s + 1]

\* fee + slippage at a price: 0.0005 of it plus 1 basis point of it
StatedCost(price) ==
  FAdd(FMul(Float(5, 10000), price), FMul(Float(1, 10000), price))

StatedExecutionPrice(price, a) ==
  IF IsBuy(a) THEN FAdd(price, StatedCost(price)) ELSE FSub(price, StatedCost(price))

\* C6: over n prices and k actions run_backtest makes ceil(n/10) * k trades:
\* at each sample index 0, 10, 20, ..., in increasing order, one trade per
\* action in action order, priced from that sample's price; no other sample
\* trades, and no prices or no actions give no trades.
C6_TradesEveryTenthSample ==
  pc = "run_backtest" =>
    LET actions == args.req.strategy.actions
        k == Len(actions)
        samples == SampleCount(Len(args.prices))
    IN  /\ Len(ret.trades) = samples * k
        /\ (args.prices = <<>> \/ actions = <<>>) => ret.trades = <<>>
        /\ \A s \in 0..(samples - 1) : \A j \in 1..k :
             LET t == ret.trades[s * k + j]
             IN  /\ t.symbol = actions[j].instrument
                 /\ t.quantity = actions[j].quantity
                 /\ IsBuy(actions[j]) <=> t.side = "BUY"
                 /\ FEq(t.price,
                        StatedExecutionPrice(SamplePrice(args.prices, s), actions[j]))

\* three samples of different prices, two different actions: six trades
C6_Witness ==
  /\ pc = "run_backtest"
  /\ Len(args.prices) = 21
  /\ ~FEq(args.prices[1], args.prices[11])
  /\ ~FEq(args.prices[11], args.prices[21])
  /\ Len(args.req.strategy.actions) = 2
  /\ args.req.strategy.actions[1] # args.req.strategy.actions[2]
  /\ Len(ret.trades) = 6

\* C7: a trade made at a positive market price executes at price + (fee +
\* slippage) for a BUY and price - (fee + slippage) for a SELL, fee being
\* 0.0005 * price and slippage 1/10000 * price: a BUY strictly above and a
\* SELL strictly below the market price.
C7_BuyAboveSellBelow ==
  pc = "run_backtest" =>
    LET actions == args.req.strategy.actions
        k == Len(actions)
    IN  \A s \in 0..(SampleCount(Len(args.prices)) - 1) : \A j \in 1..k :
          LET price == SamplePrice(args.prices, s)
              t == ret.trades[s * k + j]
          IN  FGt(price, Zero) =>
                /\ IsBuy(actions[j]) =>
                     /\ FEq(t.price, FAdd(price, StatedCost(price)))
                     /\ FGt(t.price, price)
                /\ IsSell(actions[j]) =>
                     /\ FEq(t.price, FSub(price, StatedCost(price)))
                     /\ FLt(t.price, price)

\* a BUY and a SELL made at the same positive market price
C7_Witness ==
  /\ pc = "run_backtest"
  /\ Len(ret.trades) >= 2
  /\ FGt(args.prices[1], Zero)
  /\ IsBuy(args.req.strategy.actions[1])
  /\ IsSell(args.req.strategy.actions[2])
  /\ FGt(ret.trades[1].price, args.prices[1])
  /\ FLt(ret.trades[2].price, args.prices[1])

\* C8: the equity curve has one element more than there are trades, starts at
\* the initial capital, and trade i moves it by direction * quantity * price *
\* 0.001 (direction +1 for BUY, -1 for SELL, price the execution price).
C8_EquityCurveSteps ==
  pc = "run_backtest" =>
    /\ Len(ret.equity_curve) = Len(ret.trades) + 1
    /\ FEq(ret.equity_curve[1], args.req.initial_capital)
    /\ \A i \in 1..Len(ret.trades) :
         LET t == ret.trades[i]
             direction == IF t.side = "BUY" THEN 1 ELSE -1
         IN  /\ t.side \in {"BUY", "SELL"}
             /\ FEq(FSub(ret.equity_curve[i + 1], ret.equity_curve[i]),
                    FDiv(FMul(Float(direction * t.quantity, 1), t.price),
                         Float(1000, 1)))

\* a curve of four trades at non-zero prices that goes up and down
C8_Witness ==
  /\ pc = "run_backtest"
  /\ Len(ret.equity_curve) = 5
  /\ FGt(ret.equity_curve[2], ret.equity_curve[1])
  /\ FLt(ret.equity_curve[3], ret.equity_curve[2])
  /\ FGt(ret.equity_curve[4], ret.equity_curve[3])
  /\ FLt(ret.equity_curve[5], ret.equity_curve[4])

\* the equity curve and the stats of the call in the current state
StatsCall == pc \in {"run_backtest", "compute_stats"}
CurveOfCall == IF pc = "compute_stats" THEN args.equity_curve ELSE ret.equity_curve
StatsOfCall == IF pc = "compute_stats" THEN ret ELSE ret.stats

\* equal as floats, or both NaN
SameFloat(a, b) == (IsNaN(a) /\ IsNaN(b)) \/ FEq(a, b)

\* C9: the profit factor is exactly 999 when no period-over-period return of
\* the equity curve is negative and at least one is positive; it is the gross
\* positive return over the gross negative return when some return is
\* negative; it is 0 when no return is positive and none is negative.
C9_ProfitFactorCases ==
  StatsCall =>
    LET r == returns_of(CurveOfCall)
        gains == SelectSeq(r, IsGain)
        losses == SelectSeq(r, IsLoss)
        pf == StatsOfCall.profit_factor
    IN  /\ (losses = <<>> /\ gains # <<>>) => FEq(pf, Float(999, 1))
        /\ losses # <<>> => SameFloat(pf, FDiv(FSum(gains), FNeg(FSum(losses))))
        /\ (losses = <<>> /\ gains = <<>>) => FEq(pf, Zero)

\* a backtest whose returns are never negative and twice positive: the cap
C9_Witness ==
  /\ pc = "run_backtest"
  /\ LET r == returns_of(ret.equity_curve)
     IN  /\ Len(r) >= 3
         /\ \A i \in 1..Len(r) : ~IsLoss(r[i])
         /\ Cardinality({i \in 1..Len(r) : IsGain(r[i])}) >= 2
  /\ FEq(ret.stats.profit_factor, Float(999, 1))

\* C10: for every equity curve run_backtest produces, whatever the initial
\* capital, the sides and the prices, the reported max_drawdown is <= 0.
C10_MaxDrawdownNonPositive ==
  pc = "run_backtest" => FLe(ret.stats.max_drawdown, Zero)

(***************************************************************************)
(* Strategy decision engine: C20                                           *)
(***************************************************************************)

MissingBelow1 == [indicator |-> "missing", operator |-> "<", threshold |-> 100]
MissingAbove0 == [indicator |-> "missing", operator |-> ">", threshold |-> 0]

\* the comparison of a condition applied to the value 0.0
HoldsOfZero(c) ==
  \/ c.operator = ">" /\ 0 > c.threshold
  \/ c.operator = "<" /\ 0 < c.threshold
  \/ c.operator = ">=" /\ 0 >= c.threshold
  \/ c.operator = "<=" /\ 0 <= c.threshold
  \/ c.operator = "==" /\ 0 = c.threshold
  \/ c.operator = "!=" /\ 0 # c.threshold

\* C20: a condition on an indicator that is not a key of the context is
\* evaluated with the value 0.0 and the call returns a normal EXECUTE/SKIP
\* result: with no filter and only such conditions the strategy executes
\* exactly when every comparison holds of 0.0; {missing < 1} alone executes
\* and any strategy with {missing > 0} skips.
C20_MissingIndicatorIsZero ==
  pc = "run_live_strategy" =>
    LET strat == args.req.strategy
        conds == strat.conditions
    IN  /\ ret.executed \in BOOLEAN
        /\ (strat.filters = <<>>
             /\ \A i \in 1..Len(conds) : conds[i].indicator \notin DOMAIN args.context)
             => (ret.executed <=> \A i \in 1..Len(conds) : HoldsOfZero(conds[i]))
        /\ (conds = <<MissingBelow1>> /\ strat.filters = <<>>) => ret.executed
        /\ (\E i \in 1..Len(conds) : conds[i] = MissingAbove0) => ~ret.executed

\* {missing < 1} is the only condition, the context has no key "missing" and
\* the strategy executes its two actions
C20_Witness ==
  /\ pc = "run_live_strategy"
  /\ args.req.strategy.conditions = <<MissingBelow1>>
  /\ args.req.strategy.filters = <<>>
  /\ "missing" \notin DOMAIN args.context
  /\ ret.executed
  /\ Len(ret.trades) = 2

(***************************************************************************)
(* Volatility analytics: C13                                               *)
(***************************************************************************)

\* the number of samples of the history that are at most, below, equal to iv
SamplesAtMost(iv, history) == Cardinality({i \in 1..Len(history) : FCmp(history[i], iv) <= 0})
SamplesBelow(iv, history) == Cardinality({i \in 1..Len(history) : FCmp(history[i], iv) < 0})
SamplesEqual(iv, history) == Cardinality({i \in 1..Len(history) : FCmp(history[i], iv) = 0})

\* 100 * count / n as a float
Percent(count, n) == Float(100 * count, n)

\* C13: for a non-empty history iv_rank is 100 times the share of samples <= iv
\* and iv_percentile 100 times the share of samples < iv, so that the rank
\* exceeds the percentile by exactly 100 times the share of samples equal to
\* iv, rank >= percentile and both lie in [0, 100]; for an empty history both
\* are 0.
C13_RankAndPercentileShares ==
  pc \in {"iv_rank", "iv_percentile"} =>
    LET iv == args.iv
        history == args.history
        n == Len(history)
        rank == IF pc = "iv_rank" THEN ret ELSE iv_rank(iv, history)
        percentile == IF pc = "iv_percentile" THEN ret ELSE iv_percentile(iv, history)
    IN  IF n = 0 THEN FEq(rank, Zero) /\ FEq(percentile, Zero)
        ELSE /\ FEq(rank, Percent(SamplesAtMost(iv, history), n))
             /\ FEq(percentile, Percent(SamplesBelow(iv, history), n))
             /\ FEq(FSub(rank, percentile), Percent(SamplesEqual(iv, history), n))
             /\ FGe(rank, percentile)
             /\ InRange(rank) /\ InRange(percentile)

\* a sample with values below, equal to and above the volatility: the rank
\* counts the equal one and the percentile does not
C13_Witness ==
  /\ pc = "iv_rank"
  /\ Len(args.history) = 3
  /\ SamplesBelow(args.iv, args.history) = 1
  /\ SamplesEqual(args.iv, args.history) = 1
  /\ FEq(ret, Float(200, 3))

(***************************************************************************)
(* Open-interest analytics: C19                                            *)
(***************************************************************************)

\* C19: each put-call ratio is null or a value >= 0, and it is null exactly
\* when its denominator (the calls' open interest, the calls' volume) is 0: a
\* zero denominator is never reported as a number.
C19_RatioNullIffZeroDenominator ==
  pc \in {"calculate_pcr", "calculate_pcr_volume"} =>
    /\ (ret = None) <=> FEq(args.call, Zero)
    /\ ret # None => FGe(ret, Zero)

(***************************************************************************)
(* C18, C17: the greeks                                                    *)
(***************************************************************************)
GreeksFields == {"price", "delta", "gamma", "theta", "vega", "rho"}

DegenerateGreeksInput ==
  FLe(args.spot, Zero) \/ FLe(args.strike, Zero) \/ FLe(args.iv, Zero)

\* C18: compute_greeks does not raise on a degenerate input: when spot,
\* strike or iv is at most 0, it returns a result whose six fields (price,
\* delta, gamma, theta, vega, rho) are all exactly 0.
C18_DegenerateGreeksAreZero ==
  (pc = "compute_greeks" /\ DegenerateGreeksInput)
    => /\ ~IsRaised(ret)
       /\ DOMAIN ret = GreeksFields
       /\ \A f \in GreeksFields : FEq(ret[f], Zero)

C18_Witness ==
  /\ pc = "compute_greeks"
  /\ FLe(args.strike, Zero) /\ FGt(args.spot, Zero) /\ FGt(args.iv, Zero)
  /\ ret = ZeroGreeks

\* the result of the same call with the other option type
GreeksOf(option_type) ==
  IF args.option_type = option_type THEN ret
  ELSE compute_greeks(args.spot, args.strike, args.days_to_expiry, args.iv,
                      option_type, args.rate)

DeltaParity ==
  /\ ~IsRaised(GreeksOf("CALL")) /\ ~IsRaised(GreeksOf("PUT"))
  /\ FEq(FSub(GreeksOf("CALL").delta, GreeksOf("PUT").delta), One)

PriceAt(iv) ==
  _black_scholes_price(args.spot, args.strike, YearsToExpiry(args.days_to_expiry),
                       args.rate, iv, args.option_type)

\* C11: implied_volatility returns a number without raising, after at most
\* 50 iterations: the midpoint at which the price error first fell below
\* 1e-5, or else the midpoint of the bracket left by the 50th iteration.
C11_SolverReturnsWithinBudget ==
  /\ pc = "implied_volatility.loop" => locals.i <= max_iter
  /\ pc = "implied_volatility"
       => /\ ~IsRaised(ret)
          /\ "i" \in DOMAIN locals
               => /\ locals.i <= max_iter
                  /\ ret = Midpoint(locals.low, locals.high)
                  /\ \/ FLt(FAbs(FSub(PriceAt(ret), args.option_price)), tol)
                     \/ locals.i = max_iter

\* C12: for a snapshot with spot > 0 and strike > 0 and a volatility v0 in
\* (0, 3), implied_volatility of the closed-form price at v0 is within 1e-4
\* of v0.
C12_RoundTrip ==
  (pc = "implied_volatility" /\ FGt(args.spot, Zero) /\ FGt(args.strike, Zero))
    => \A v0 \in KnownVols :
         FEq(args.option_price, PriceAt(v0))
           => /\ ~IsRaised(ret)
              /\ FLe(FAbs(FSub(ret, v0)), Float(1, 10000))

(***************************************************************************)
(* C23, C29: the strategy routes                                           *)
(***************************************************************************)
\* C23: DELETE /strategies/{name} and PUT /strategies/{name} with the name of
\* a default strategy answer 400 and leave the collection as it was, whatever
\* it holds.
C23_DefaultStrategiesAreProtected ==
  [][(/\ pc = "idle"
      /\ pc' \in {"delete_strategy", "update_strategy_name"}
      /\ IsDefaultName(args'.name))
       => (ret' = HTTPException(400) /\ strategies' = strategies)]_vars

\* a delete of a default strategy's name is refused although the collection
\* holds a document of that name
C23_Witness ==
  /\ pc = "delete_strategy" /\ IsDefaultName(args.name)
  /\ FirstNamed(strategies, args.name) # 0
  /\ ret = HTTPException(400)

\* the fields of a StrategyDefinition
StrategyFields ==
  {"name", "mode", "conditions", "filters", "actions", "exits", "multi_leg"}

\* C29: after POST /strategy/save of a strategy S was answered "saved", and
\* whatever saves, renames and deletes followed that leave the name saved,
\* GET /strategies/{S.name} returns a strategy whose fields equal those of S.
C29_SavedStrategyIsReturned ==
  (pc = "get_strategy" /\ args.name \in DOMAIN saved)
    => /\ ~IsRaised(ret)
       /\ \A field \in StrategyFields : ret.strategy[field] = saved[args.name][field]

(***************************************************************************)
(* C21: GET /chain/live                                                    *)
(***************************************************************************)
\* the direct attempt of the call was made and failed
AttemptFailed ==
  /\ args.USE_UPSTOX_LIVE
  /\ IsRaised(upstox_chain(args.instruments, args.symbol, args.upstox))

\* C21: whenever the direct Upstox attempt of get_live_chain fails (no
\* instrument key, an HTTP error, no usable entry), the call falls back to
\* the synthetic chain and returns an option-chain response of the symbol:
\* the caller never sees the failure.
C21_FailedAttemptFallsBack ==
  (pc = "get_live_chain" /\ AttemptFailed)
    => /\ ~IsRaised(ret)
       /\ ret.underlying = args.symbol
       /\ Len(ret.entries) = Len(synthetic_chain(args.instruments, args.symbol).entries)

(***************************************************************************)
(* C22, C26, C27: SignalManager.broadcast                                  *)
(***************************************************************************)
\* the sends of the broadcasts, each with the symbol of its tick
Sends ==
  UNION {{[tick_symbol |-> symbol, send |-> broadcasts[symbol].sends[k]] :
            k \in DOMAIN broadcasts[symbol].sends} : symbol \in StreamSymbols}

C26_DeliveredToCurrentSubscription ==
  \A s \in Sends :
    s.send.delivered
      => /\ s.send.registered
         /\ s.send.subscription \in {NoSymbol, s.tick_symbol}

\* the sends of the broadcast of a symbol before a step, none if the step
\* starts a broadcast
SendsBefore(symbol) ==
  IF broadcasts[symbol].running THEN Len(broadcasts[symbol].sends) ELSE 0

\* the items of a dict
Items(items) == {items[k] : k \in DOMAIN items}

\* C27: when a send of a broadcast raises, that connection and no other
\* leaves active_connections and the broadcast goes on; a send that delivers
\* removes nothing; and a broadcast ends only after a send to every
\* connection it listed with the tick's symbol or without a subscription.
C27_FailedSendRemovesOnlyItsConnection ==
  [][\A symbol \in StreamSymbols :
       broadcasts'[symbol] # broadcasts[symbol]
         => /\ Len(broadcasts'[symbol].sends) = SendsBefore(symbol) + 1
                 => LET send == broadcasts'[symbol].sends[Len(broadcasts'[symbol].sends)]
                    IN  /\ broadcasts'[symbol].running
                        /\ Items(active_connections') =
                             IF send.delivered THEN Items(active_connections)
                             ELSE {item \in Items(active_connections) :
                                     item.connection # send.connection}
            /\ ~broadcasts'[symbol].running
                 => \A k \in DOMAIN broadcasts'[symbol].items :
                      broadcasts'[symbol].items[k].subscribed_symbol \in {NoSymbol, symbol}
                        => \E j \in DOMAIN broadcasts'[symbol].sends :
                             broadcasts'[symbol].sends[j].connection =
                               broadcasts'[symbol].items[k].connection]_vars

\* a broadcast has ended whose first send raised and whose second delivered:
\* the first connection is gone, the second is still registered
C27_Witness ==
  \E symbol \in StreamSymbols :
    /\ ~broadcasts[symbol].running
    /\ Len(broadcasts[symbol].sends) = 2
    /\ ~broadcasts[symbol].sends[1].delivered
    /\ broadcasts[symbol].sends[2].delivered
    /\ broadcasts[symbol].sends[1].connection \notin Connections(active_connections)
    /\ broadcasts[symbol].sends[2].connection \in Connections(active_connections)

(***************************************************************************)
(* C28: the bracket of the implied-volatility solver                       *)
(***************************************************************************)
\* 1e-6 <= low <= high <= 5.0
BracketHolds(low, high) ==
  /\ FLe(Float(1, 1000000), low) /\ FLe(low, high) /\ FLe(high, Float(5, 1))

\* C28: 1e-6 <= low <= high <= 5.0 holds before and after every iteration
\* of the bisection; an iteration that does not end the loop replaces
\* exactly one end of the bracket by the midpoint; the value returned is in
\* [1e-6, 5.0] when option_price > 0 and is 0.0 when option_price <= 0.
C28_BracketInvariant ==
  /\ [](pc = "implied_volatility.loop" => BracketHolds(locals.low, locals.high))
  /\ [][(pc = "implied_volatility.loop" /\ pc' = "implied_volatility.loop")
          => LET mid == FMul(Half, FAdd(locals.low, locals.high))
             IN  \/ FEq(locals'.low, mid) /\ FEq(locals'.high, locals.high)
                      /\ ~FEq(locals.low, mid)
                 \/ FEq(locals'.high, mid) /\ FEq(locals'.low, locals.low)
                      /\ ~FEq(locals.high, mid)]_vars
  /\ []((pc = "implied_volatility" /\ ~IsRaised(ret))
          => IF FGt(args.option_price, Zero)
             THEN FLe(Float(1, 1000000), ret) /\ FLe(ret, Float(5, 1))
             ELSE ret = Zero)

\* a call with a positive price has returned from a bracket both ends of
\* which the loop has moved
C28_Witness ==
  /\ pc = "implied_volatility" /\ FGt(args.option_price, Zero) /\ ~IsRaised(ret)
  /\ "low" \in DOMAIN locals
  /\ FGt(locals.low, Float(1, 1000000)) /\ FLt(locals.high, Float(5, 1))
  /\ FLt(locals.low, ret) /\ FLt(ret, locals.high)

(***************************************************************************)
(* C30: what run_backtest reads of its request                             *)
(***************************************************************************)
\* the request with fixed values in the fields that are not prices, actions,
\* strategy name, symbol, start date or initial capital
WithoutUnreadFields(req) ==
  [req EXCEPT !.end_date = "", !.strategy.mode = "BACKTEST", !.strategy.conditions = <<>>,
              !.strategy.filters = <<>>, !.strategy.exits = <<>>]

\* C30: the result of run_backtest depends only on the prices and on the
\* actions, strategy name, symbol, start date and initial capital of the
\* request: requests that differ only in conditions, filters, exits, mode or
\* end date have the same result, and so has the same request run again.
C30_ResultIgnoresUnreadFields ==
  pc = "run_backtest" => ret = run_backtest(WithoutUnreadFields(args.req), args.prices)

\* a backtest of a LIVE strategy with a condition, a filter and an exit, that
\* ends before it starts, has traded
C30_Witness ==
  /\ pc = "run_backtest"
  /\ args.req.strategy.mode = "LIVE" /\ args.req.strategy.conditions # <<>>
  /\ args.req.strategy.filters # <<>> /\ args.req.strategy.exits # <<>>
  /\ args.req.end_date = "2023-12-31"
  /\ Len(ret.trades) = 6

\* the changes of a series are all equal
ZeroVariance(changes) == \A i, j \in DOMAIN changes : FEq(changes[i], changes[j])

\* C24: oi_spike_detector returns exactly 0.0 when the series has fewer than
\* two points or all its period-over-period changes are equal, and otherwise
\* numpy's (last change - mean of the changes) / std of the changes.
C24_SpikeIsZeroAtZeroVariance ==
  pc = "oi_spike_detector" =>
    IF Len(args.oi_series) < 2 THEN ret = Zero
    ELSE IF ZeroVariance(locals.changes) THEN ret = Zero
    ELSE ret = spike_of(locals.changes)

(***************************************************************************)
(* Days to expiry: C25                                                     *)
(***************************************************************************)

\* the request q one day before expiry
AtOneDay(q) == [q EXCEPT !.days_to_expiry = 1]

\* the states of the global generator
Generators == {FreshGenerator} \cup {[Seed42 EXCEPT !.position = k] : k \in 0..(StreamPeriod - 1)}

\* the generators a call of the model that leaves the generator g behind can
\* have read, and the draws it reads; the seeded models read their own seed
GeneratorsOf(model, g) ==
  IF model = "monte_carlo_itm_probability"
  THEN {h \in Generators : g \in {h, Advance(h, Paths)}}
  ELSE {FreshGenerator}
DrawsOf(model, g) ==
  IF model = "monte_carlo_itm_probability" THEN Samples(g, Paths) ELSE {<<>>}

\* the outcome of the model of the suite on the request q, on the generator
\* g when standard_normal returns z
ModelOutcome(model, q, g, z) ==
  CASE model = "black_scholes_d2_probability" ->
         Outcome(black_scholes_d2_probability(q.spot, q.strike, q.days_to_expiry, q.iv,
                                              q.option_type), g)
    [] model = "lognormal_itm_probability" ->
         Outcome(lognormal_itm_probability(q.spot, q.strike, q.days_to_expiry, q.iv), g)
    [] model = "binomial_itm_probability" ->
         Outcome(binomial_itm_probability(q.spot, q.strike, q.days_to_expiry, q.iv,
                                          TreeSteps), g)
    [] model = "monte_carlo_itm_probability" ->
         monte_carlo_itm_probability(q.spot, q.strike, q.days_to_expiry, q.iv, Paths, g, z)
    [] model = "expected_move" ->
         Outcome(expected_move(q.spot, q.days_to_expiry, q.iv), g)
    [] model = "geometric_brownian_motion_probability" ->
         Outcome(geometric_brownian_motion_probability(q.spot, q.strike, q.days_to_expiry,
                                                       q.iv, Zero), g)
    [] model = "trinomial_tree_probability" ->
         Outcome(trinomial_tree_probability(q.spot, q.strike, q.days_to_expiry, q.iv,
                                            TreeSteps), g)
    [] model = "heston_stochastic_volatility_probability" ->
         heston_stochastic_volatility_probability(q.spot, q.strike, q.days_to_expiry, q.iv,
                                                  Paths, g)
    [] model = "sabr_probability" ->
         Outcome(sabr_probability(q.spot, q.strike, q.days_to_expiry, q.iv), g)
    [] model = "jump_diffusion_probability" ->
         jump_diffusion_probability(q.spot, q.strike, q.days_to_expiry, q.iv, Paths, g)
    [] model = "garch_probability" ->
         garch_probability(q.spot, q.strike, q.days_to_expiry, q.iv, Paths, g)
    [] model = "risk_neutral_density_probability" ->
         Outcome(risk_neutral_density_probability(q.spot, q.strike, q.days_to_expiry, q.iv),
                 g)
    [] model = "machine_learning_probability" ->
         Outcome(machine_learning_probability(q.spot, q.strike, q.days_to_expiry, q.iv,
                                              <<>>), g)

\* the pricing functions of greeks.py give the request q what they give it
\* one day before expiry
PricedAsAtOneDay(q) ==
  \A option_type \in OptionType, rate \in GreeksRates :
    /\ black_scholes_price(q.spot, q.strike, q.days_to_expiry, q.iv, option_type, rate)
         = black_scholes_price(q.spot, q.strike, 1, q.iv, option_type, rate)
    /\ compute_greeks(q.spot, q.strike, q.days_to_expiry, q.iv, option_type, rate)
         = compute_greeks(q.spot, q.strike, 1, q.iv, option_type, rate)

\* C25: days to expiry are floored to 1 in every entry point.  A call with
\* days_to_expiry <= 1 has t > 0; t, which is all implied_volatility reads of
\* the days, is that of one day; every model of the suite and expected_move
\* return, on the same generator and draws, what they return for one day,
\* and so do black_scholes_price and compute_greeks.
C25_ExpiryIsFlooredToOneDay ==
  (pc # "idle" /\ args.days_to_expiry <= 1) =>
    /\ FGt(YearsToExpiry(args.days_to_expiry), Zero)
    /\ YearsToExpiry(args.days_to_expiry) = YearsToExpiry(1)
    /\ \A g \in GeneratorsOf(pc, np_random) : \A z \in DrawsOf(pc, g) :
         Eager(ModelOutcome(pc, AtOneDay(args), g, z), LAMBDA atOneDay :
           /\ ModelOutcome(pc, args, g, z) = atOneDay
           /\ pc # "monte_carlo_itm_probability" => ret = atOneDay.value)
    /\ pc = "monte_carlo_itm_probability" =>
         \E g \in GeneratorsOf(pc, np_random) : \E z \in DrawsOf(pc, g) :
           ret = ModelOutcome(pc, AtOneDay(args), g, z).value
    /\ PricedAsAtOneDay(args)

\* a model has answered a request three days past its expiry with a
\* probability strictly between 0 and 1
C25_Witness ==
  /\ pc = "lognormal_itm_probability"
  /\ args.days_to_expiry < 0
  /\ ~IsRaised(ret) /\ FGt(ret, Zero) /\ FLt(ret, One)

\* the models a strike's row reports, with the value each computes for the
\* request q on its own; the three seeded simulations reseed the generator
\* and do not depend on it
RowModels ==
  {"d2_probability", "gbm_probability", "binomial_probability", "trinomial_probability",
   "heston_probability", "sabr_probability", "jump_diffusion_probability",
   "garch_probability", "rnd_probability", "ml_probability"}

RowModelValue(field, spot_val, k, dte, iv_ann) ==
  CASE field = "d2_probability" ->
         black_scholes_d2_probability(spot_val, k, dte, iv_ann, "CALL")
    [] field = "gbm_probability" ->
         geometric_brownian_motion_probability(spot_val, k, dte, iv_ann, Zero)
    [] field = "binomial_probability" ->
         binomial_itm_probability(spot_val, k, dte, iv_ann, TreeSteps)
    [] field = "trinomial_probability" ->
         trinomial_tree_probability(spot_val, k, dte, iv_ann, TreeSteps)
    [] field = "heston_probability" ->
         heston_stochastic_volatility_probability(spot_val, k, dte, iv_ann, Paths,
                                                  FreshGenerator).value
    [] field = "sabr_probability" -> sabr_probability(spot_val, k, dte, iv_ann)
    [] field = "jump_diffusion_probability" ->
         jump_diffusion_probability(spot_val, k, dte, iv_ann, Paths, FreshGenerator).value
    [] field = "garch_probability" ->
         garch_probability(spot_val, k, dte, iv_ann, Paths, FreshGenerator).value
    [] field = "rnd_probability" ->
         risk_neutral_density_probability(spot_val, k, dte, iv_ann)
    [] field = "ml_probability" ->
         machine_learning_probability(spot_val, k, dte, iv_ann, <<>>)

\* C14: when a probability model raises while a strike is evaluated, the
\* request does not fail, every other model's value is returned, and the
\* failing model, the analytic d2 included, is reported as None and never as
\* a number
C14_ModelFailuresAreIsolated ==
  /\ pc = "post_probability_heatmap" =>
       /\ ~IsRaised(ret)
       /\ \A field \in RowModels :
            LET value == RowModelValue(field, args.spot, args.strike, args.days_to_expiry,
                                       iv_for_strike(args.strike, args.iv))
            IN  ret[field] = IF IsRaised(value) THEN None ELSE value
  /\ pc = "post_probability" =>
       ~IsRaised(ret)

\* C15: no call of a probability model changes the state a later call
\* observes: every call leaves the global generator as it found it, and
\* monte_carlo_itm_probability always draws from a generator no earlier call
\* has seeded
C15_ModelCallsShareNoState ==
  [][(pc = "idle" /\ pc' # "idle") =>
       /\ np_random' = np_random
       /\ pc' = "monte_carlo_itm_probability" => ~np_random.seeded]_vars

\* a valid snapshot: spot > 0, strike > 0, iv > 0, any days to expiry
ValidSnapshot(q) == FGt(q.spot, Zero) /\ FGt(q.strike, Zero) /\ FGt(q.iv, Zero)

\* C16: on a valid snapshot every model of the Probability Suite returns a
\* value in [0, 1] or no value; none returns NaN, a value below 0 or a value
\* above 1
C16_ProbabilitiesAreInRange ==
  (pc \notin {"idle", "expected_move"} /\ ValidSnapshot(args)) =>
    \/ ret = None
    \/ IsRaised(ret)
    \/ ~IsNaN(ret) /\ FGe(ret, Zero) /\ FLe(ret, One)

=========================================================================
